---- MODULE Spec2Model ----
(***************************************************************************)
(* A model of the monki interpreter: the Pratt parser of src/parser.rs     *)
(* (token sequence -> Program) and the tree-walking evaluator of           *)
(* src/eval.rs (Program -> Option<Object>).                                *)
(*                                                                         *)
(* The statement loops of parse_program and of eval are the actions; the   *)
(* recursive descent below them is a family of RECURSIVE operators that    *)
(* thread the parser state (cursor) or the evaluator state (environment    *)
(* frames, active environment, event log) through every call, one          *)
(* operator per function of the source.                                    *)
(*                                                                         *)
(* Text (identifier names, string contents, the digits of a number token)  *)
(* is a sequence of one-character strings.  Option<T> is T or None.  A     *)
(* Rust panic (unwrap of None, index out of bounds, arithmetic trap) is    *)
(* the sticky flag `panicked` of the threaded state.                       *)
(***************************************************************************)
EXTENDS Integers, Sequences, FiniteSets, TLC

VARIABLES
    parser,     \* the Parser: tokens, index (0-based, as in the source),
                \* current_token, peek_token, and whether it has panicked
    program,    \* parse_program's local `program`, then eval's argument
    phase,      \* "parse" | "eval" | "done" | "panic"
    ev,         \* the Evaluator: envs (the heap of Env frames behind the
                \* Rc<RefCell<Env>> handles, by address), env (the address of
                \* the active frame), out (what println! printed), and the
                \* event log that observes the evaluation
    result,     \* eval's local `result`, then its return value
    pos,        \* number of top-level statements eval has taken
    build       \* "debug" | "release": whether integer overflow traps

vars == <<parser, program, phase, ev, result, pos, build>>

----------------------------------------------------------------------------
(* Bounds of the model *)

\* Width of the modelled Integer (the source's i64, scaled down).
IntBits == 8
\* Longest token sequence (Eof excluded) drawn from the token alphabet.
MaxTokLen == 3
\* Deepest nesting of the generated if-blocks.
MaxDepth == 2
\* The most infix operators in a generated operator chain.
MaxOps == 2
\* The longest generated array literal; generated indices go one past it
\* on either side.
MaxArrLen == 2
\* The most statements in a generated statement sequence.
MaxStmts == 2

MinInt == -(2 ^ (IntBits - 1))
MaxInt == 2 ^ (IntBits - 1) - 1

None == [kind |-> "None"]

\* Some(x), where x is a sequence (an Option<T> of a record T is T or None).
Some(x) == [kind |-> "Some", value |-> x]

----------------------------------------------------------------------------
(* Tokens (crate::lexer, consumed) *)

Tok(tt, lit) == [ttype |-> tt, literal |-> lit]

DigitVal(c) ==
    CASE c = "0" -> 0 [] c = "1" -> 1 [] c = "2" -> 2 [] c = "3" -> 3
      [] c = "4" -> 4 [] c = "5" -> 5 [] c = "6" -> 6 [] c = "7" -> 7
      [] c = "8" -> 8 [] c = "9" -> 9

RECURSIVE ParseDigits(_, _)
\* str::parse::<i64>: the value of a digit string, None when it does not fit.
ParseDigits(ds, acc) ==
    IF ds = <<>> THEN Some(acc)
    ELSE IF acc * 10 + DigitVal(Head(ds)) > MaxInt THEN None
    ELSE ParseDigits(Tail(ds), acc * 10 + DigitVal(Head(ds)))

ParseI64(lit) == IF lit = <<>> THEN None ELSE ParseDigits(lit, 0)

----------------------------------------------------------------------------
(* Parser: src/parser.rs *)

Lowest == 0
Equals == 1
LessGreater == 2
Sum == 3
Product == 4
Prefix == 5
Call == 6
Index == 7
Dot == 8

\* The parser state threaded through the recursive descent.
PState(toks, i, cur, peek) ==
    [tokens |-> toks, index |-> i, current_token |-> cur, peek_token |-> peek,
     panicked |-> FALSE, advances |-> 0, cursor_ok |-> TRUE, eof_advance |-> FALSE,
     blocks |-> <<>>, hashes |-> <<>>]

\* Parser::new
ParserNew(toks) == PState(toks, 0, toks[1], toks[2])

\* The relation the cursor fields are meant to keep (observed, never enforced).
CursorOk(p) ==
    /\ p.index >= 0
    /\ p.index <= Len(p.tokens) - 1
    /\ p.current_token = p.tokens[p.index + 1]
    /\ p.peek_token =
         p.tokens[(IF p.index + 1 < Len(p.tokens) - 1 THEN p.index + 1
                   ELSE Len(p.tokens) - 1) + 1]

Panic(p) == [p EXCEPT !.panicked = TRUE]

\* The bookkeeping of one cursor advance (observation only).
Advanced(p) ==
    [p EXCEPT !.advances = @ + 1,
              !.eof_advance = @ \/ p.current_token.ttype = "Eof"]

Observed(p) == [p EXCEPT !.cursor_ok = @ /\ CursorOk(p)]

\* next_token; `self.tokens[self.index]` panics past the end of the vector.
next_token(p) ==
    CASE p.panicked -> p
      [] ~p.panicked /\ p.index + 1 >= Len(p.tokens) ->
            [Advanced(p) EXCEPT !.index = p.index + 1,
                                !.panicked = TRUE, !.cursor_ok = FALSE]
      [] OTHER ->
            Observed([Advanced(p) EXCEPT
                        !.index = p.index + 1,
                        !.current_token = p.tokens[p.index + 2],
                        !.peek_token = IF p.index + 2 < Len(p.tokens)
                                       THEN p.tokens[p.index + 3] ELSE @])

PeekIs(p, tt) == p.peek_token.ttype = tt

\* expect_peek's effect on the cursor; its boolean result is PeekIs(p, tt).
expect_peek(p, tt) == IF PeekIs(p, tt) THEN next_token(p) ELSE p

token_precedence(tt) ==
    CASE tt \in {"Assign", "NotEq", "Eq"} -> Equals
      [] tt \in {"Lt", "Gt"} -> LessGreater
      [] tt \in {"Add", "Sub"} -> Sum
      [] tt \in {"Div", "Mul"} -> Product
      [] tt = "LParen" -> Call
      [] tt = "LBracket" -> Index
      [] tt = "Period" -> Dot
      [] OTHER -> Lowest

cur_precedence(p) == token_precedence(p.current_token.ttype)

peek_precedence(p) == token_precedence(p.peek_token.ttype)

\* The token types of the first arm of parse_expression's infix `match`.
InfixTokens == {"Add", "Assign", "Div", "Gt", "Lt", "Mul", "NotEq", "Eq", "Sub"}

\* The token types the infix `match` has an arm for.
InfixArms == InfixTokens \cup {"LParen", "LBracket", "Period"}

\* The token types the prefix `match` has an arm for.
PrefixTokens ==
    {"Ident", "String", "Number", "Bang", "Sub", "True", "False",
     "LBrace", "LParen", "LBracket", "If", "Fn"}

\* A parse result: the parser state after, and the Option<node> produced
\* (for the list parsers: the Vec produced).
PR(p, e) == [p |-> p, e |-> e]

parse_identifier(p) ==
    PR(p, [kind |-> "Identifier", value |-> p.current_token.literal])

parse_string_literal(p) ==
    PR(p, [kind |-> "StringLit", value |-> p.current_token.literal])

\* `literal.parse::<i64>().unwrap()`
IntegerOf(p, int) ==
    CASE int = None -> PR(Panic(p), None)
      [] OTHER -> PR(p, [kind |-> "IntegerLit", value |-> int.value])

parse_integer_literal(p) == IntegerOf(p, ParseI64(p.current_token.literal))

parse_boolean(p) ==
    PR(p, [kind |-> "BooleanLit", value |-> p.current_token.ttype = "True"])

RECURSIVE parse_expression(_, _)
RECURSIVE parse_infix_loop(_, _)
RECURSIVE parse_statement(_)
RECURSIVE parse_block_loop(_, _)
RECURSIVE parse_hash_loop(_, _)
RECURSIVE parse_list_loop(_, _, _)
RECURSIVE parse_param_loop(_, _)

\* `if let Some(right) = right { Some(Prefix {..}) } else { None }`
PrefixOf(operator, right) ==
    CASE right.e = None -> right
      [] OTHER -> PR(right.p, [kind |-> "Prefix", operator |-> operator,
                               right |-> right.e])

parse_prefix_expression(p) ==
    PrefixOf(p.current_token.literal, parse_expression(next_token(p), Prefix))

\* `if let Some(right) = right { Some(Infix {..}) } else { None }`
InfixOf(left, operator, right) ==
    CASE right.e = None -> right
      [] OTHER -> PR(right.p, [kind |-> "Infix", left |-> left,
                               operator |-> operator, right |-> right.e])

\* Variant of parse_infix_expression: the right operand is parsed one rung
\* lower, so that equal binding power groups to the right.
parse_infix_expression_right(p, left) ==
    InfixOf(left, p.current_token.literal,
            parse_expression(next_token(p), cur_precedence(p) - 1))

parse_infix_expression(p, left) ==
    InfixOf(left, p.current_token.literal,
            parse_expression(next_token(p), cur_precedence(p)))

\* `if !self.expect_peek(RParen) { return None; } expr`
GroupOf(expr) ==
    CASE expr.p.peek_token.ttype = "RParen" -> PR(next_token(expr.p), expr.e)
      [] OTHER -> PR(expr.p, None)

parse_group_expr(p) == GroupOf(parse_expression(next_token(p), Lowest))

\* parse_array_elements / parse_fn_arguments from the element r just parsed:
\* its unwrap and push, the `while peek == Comma` loop, the closing token.
parse_list_loop(r, elems, closing) ==
    CASE r.e = None -> PR(Panic(r.p), <<>>)
      [] r.e # None /\ r.p.panicked -> PR(r.p, <<>>)
      [] r.e # None /\ ~r.p.panicked /\ PeekIs(r.p, "Comma") ->
            parse_list_loop(
                parse_expression(next_token(next_token(r.p)), Lowest),
                Append(elems, r.e), closing)
      [] r.e # None /\ ~r.p.panicked /\ ~PeekIs(r.p, "Comma")
            /\ PeekIs(r.p, closing) ->
            PR(next_token(r.p), Append(elems, r.e))
      [] OTHER -> PR(r.p, <<>>)

\* parse_array_elements and parse_fn_arguments differ in the closing token only.
parse_expression_list(p, closing) ==
    CASE PeekIs(p, closing) -> PR(next_token(p), <<>>)
      [] OTHER -> parse_list_loop(parse_expression(next_token(p), Lowest),
                                  <<>>, closing)

parse_array_elements(p) == parse_expression_list(p, "RBracket")

parse_fn_arguments(p) == parse_expression_list(p, "RParen")

ArrayOf(elements) == PR(elements.p, [kind |-> "ArrayLit", elements |-> elements.e])

parse_array_literal(p) == ArrayOf(parse_array_elements(p))

CallOf(token, function, arguments) ==
    PR(arguments.p, [kind |-> "FunctionCall", token |-> token,
                     function |-> function, arguments |-> arguments.e])

parse_fn_call(p, function) ==
    CallOf(p.current_token, function, parse_fn_arguments(p))

\* `if !self.expect_peek(RBracket) { return None; }`, then `index.unwrap()`.
IndexOf(left, index) ==
    CASE index.p.peek_token.ttype # "RBracket" -> PR(index.p, None)
      [] index.p.peek_token.ttype = "RBracket" /\ index.e = None ->
            PR(Panic(next_token(index.p)), None)
      [] OTHER -> PR(next_token(index.p),
                     [kind |-> "IndexExpression", left |-> left,
                      index |-> index.e])

parse_index_expression(p, left) ==
    IndexOf(left, parse_expression(next_token(p), Lowest))

\* `if let Some(right) = right { Some(DotNotation {..}) } else { None }`
DotOf(left, right) ==
    CASE right.e = None -> right
      [] OTHER -> PR(right.p, [kind |-> "DotNotation", left |-> left,
                               right |-> right.e])

parse_dot_notation(p, left) ==
    DotOf(left, parse_expression(next_token(p), Dot))

\* Variant of parse_hash_value: a pair is put in front of the pairs collected.
parse_hash_value_front(key, value, pairs) ==
    CASE value.e = None -> PR(Panic(value.p), None)
      [] value.e # None /\ value.p.panicked -> PR(value.p, None)
      [] value.e # None /\ ~value.p.panicked /\ PeekIs(value.p, "RBrace") ->
            PR(value.p, Some(<<<<key.e, value.e>>>> \o pairs))
      [] value.e # None /\ ~value.p.panicked /\ PeekIs(value.p, "Comma") ->
            parse_hash_loop(next_token(value.p),
                            <<<<key.e, value.e>>>> \o pairs)
      [] OTHER -> PR(value.p, None)

\* The end of one turn of parse_hash_expr's loop: the value's unwrap, the push,
\* and the `peek != RBrace && !expect_peek(Comma)` test.
parse_hash_value(key, value, pairs) ==
    CASE value.e = None -> PR(Panic(value.p), None)
      [] value.e # None /\ value.p.panicked -> PR(value.p, None)
      [] value.e # None /\ ~value.p.panicked /\ PeekIs(value.p, "RBrace") ->
            PR(value.p, Some(Append(pairs, <<key.e, value.e>>)))
      [] value.e # None /\ ~value.p.panicked /\ PeekIs(value.p, "Comma") ->
            parse_hash_loop(next_token(value.p),
                            Append(pairs, <<key.e, value.e>>))
      [] OTHER -> PR(value.p, None)

\* The key's unwrap and `expect_peek(Colon)`, then the value.
parse_hash_key(key, pairs) ==
    CASE key.e = None -> PR(Panic(key.p), None)
      [] key.e # None /\ (key.p.panicked \/ ~PeekIs(key.p, "Colon")) ->
            PR(key.p, None)
      [] OTHER ->
            parse_hash_value(
                key,
                parse_expression(next_token(next_token(key.p)), Lowest),
                pairs)

\* The `while peek != RBrace` loop of parse_hash_expr; e = None is `return None`,
\* otherwise e is Some(the pairs collected).
parse_hash_loop(p, pairs) ==
    CASE p.panicked \/ PeekIs(p, "RBrace") -> PR(p, Some(pairs))
      [] OTHER -> parse_hash_key(parse_expression(next_token(p), Lowest), pairs)

\* `if !self.expect_peek(RBrace) { return None; }` and the Hash literal.
HashOf(r) ==
    CASE r.e = None \/ r.p.panicked \/ ~PeekIs(r.p, "RBrace") -> PR(r.p, None)
      [] OTHER -> PR(next_token(r.p), [kind |-> "HashLit", pairs |-> r.e.value])

\* The return of parse_hash_expr entered with the cursor at `open`
\* (observation only).
HashParsed(open, r) ==
    CASE r.p.panicked -> r
      [] OTHER ->
            PR([r.p EXCEPT !.hashes = Append(@, [at |-> open, result |-> r.e])],
               r.e)

parse_hash_expr(p) == HashParsed(p.index, HashOf(parse_hash_loop(p, <<>>)))

\* The end of one turn of parse_block_statement's loop: the push, next_token.
parse_block_next(stmt, block) ==
    CASE stmt.e = None -> parse_block_loop(next_token(stmt.p), block)
      [] OTHER -> parse_block_loop(next_token(stmt.p), Append(block, stmt.e))

\* The `while current != RBrace && current != Eof` loop of parse_block_statement.
parse_block_loop(p, block) ==
    CASE p.panicked \/ p.current_token.ttype \in {"RBrace", "Eof"} ->
            PR(p, block)
      [] OTHER -> parse_block_next(parse_statement(p), block)

\* The return of parse_block_statement entered with the cursor at `open`
\* (observation: where the cursor stands and what was collected).
BlockParsed(open, r) ==
    CASE r.p.panicked -> r
      [] OTHER ->
            PR([r.p EXCEPT !.blocks =
                    Append(@, [open |-> open, close |-> r.p.index, stmts |-> r.e])],
               r.e)

parse_block_statement(p) ==
    BlockParsed(p.index, parse_block_loop(next_token(p), <<>>))

\* parse_fn_parameters from the identifier under the cursor q: its push, the
\* `while peek == Comma` loop, the closing parenthesis.
parse_param_loop(q, identifiers) ==
    CASE q.panicked -> PR(q, <<>>)
      [] ~q.panicked /\ PeekIs(q, "Comma") ->
            parse_param_loop(next_token(next_token(q)),
                             Append(identifiers, q.current_token.literal))
      [] ~q.panicked /\ PeekIs(q, "RParen") ->
            PR(next_token(q), Append(identifiers, q.current_token.literal))
      [] OTHER -> PR(q, <<>>)

parse_fn_parameters(p) ==
    CASE PeekIs(p, "RParen") -> PR(next_token(p), <<>>)
      [] OTHER -> parse_param_loop(next_token(p), <<>>)

FunctionOf(parameters, body) ==
    PR(body.p, [kind |-> "FunctionLiteral", parameters |-> parameters,
                body |-> body.e])

\* parse_fn_literal after the parameters: `expect_peek(LBrace)` and the body.
parse_fn_body(parameters) ==
    CASE PeekIs(parameters.p, "LBrace") ->
            FunctionOf(parameters.e,
                       parse_block_statement(next_token(parameters.p)))
      [] OTHER -> PR(parameters.p, None)

parse_fn_literal(p) ==
    CASE PeekIs(p, "LParen") -> parse_fn_body(parse_fn_parameters(next_token(p)))
      [] OTHER -> PR(p, None)

\* The end of parse_if_expr: `condition.unwrap()` and the If node; alternative
\* is None or Some(block).
IfOf(condition, consequence, alternative, p) ==
    CASE condition.e = None -> PR(Panic(p), None)
      [] OTHER -> PR(p, [kind |-> "If", condition |-> condition.e,
                         consequence |-> consequence,
                         alternative |-> alternative])

\* `alternative = Some(self.parse_block_statement());`
parse_if_else(condition, consequence, alt) ==
    IfOf(condition, consequence, Some(alt.e), alt.p)

\* parse_if_expr after the consequence block.
parse_if_alternative(condition, consequence) ==
    CASE ~PeekIs(consequence.p, "Else") ->
            IfOf(condition, consequence.e, None, consequence.p)
      [] PeekIs(consequence.p, "Else")
            /\ PeekIs(next_token(consequence.p), "LBrace") ->
            parse_if_else(
                condition, consequence.e,
                parse_block_statement(next_token(next_token(consequence.p))))
      [] OTHER -> PR(next_token(consequence.p), None)

\* parse_if_expr after the condition.
parse_if_consequence(condition) ==
    CASE condition.p.peek_token.ttype = "LBrace" ->
            parse_if_alternative(
                condition, parse_block_statement(next_token(condition.p)))
      [] OTHER -> PR(condition.p, None)

parse_if_expr(p) ==
    parse_if_consequence(parse_expression(next_token(p), Lowest))

\* One arm of the infix `match`, the cursor q on the operator token; what
\* `_ => return left` returns is marked by Some.
parse_infix_arm(q, left) ==
    CASE q.current_token.ttype \notin InfixArms -> PR(q, Some(left))
      [] q.current_token.ttype \in InfixArms /\ left = None ->
            PR(Panic(q), None)
      [] q.current_token.ttype \in InfixTokens /\ left # None ->
            parse_infix_expression(q, left)
      [] q.current_token.ttype = "LParen" /\ left # None ->
            parse_fn_call(q, left)
      [] q.current_token.ttype = "LBracket" /\ left # None ->
            parse_index_expression(q, left)
      [] q.current_token.ttype = "Period" /\ left # None ->
            parse_dot_notation(q, left)

\* `left = match ... { ..., _ => return left }` and the next turn of the loop.
parse_infix_next(r, precedence) ==
    CASE r.e.kind = "Some" -> PR(r.p, r.e.value)
      [] OTHER -> parse_infix_loop(r, precedence)

\* The infix `while` loop of parse_expression around left, a parse result.
parse_infix_loop(left, precedence) ==
    CASE left.p.panicked -> PR(left.p, None)
      [] ~left.p.panicked /\ left.p.peek_token.ttype # "Semicolon"
            /\ precedence < peek_precedence(left.p) ->
            parse_infix_next(parse_infix_arm(next_token(left.p), left.e),
                             precedence)
      [] OTHER -> left

\* The prefix `match` of parse_expression.
parse_prefix_arm(p) ==
    CASE p.current_token.ttype = "Ident" -> parse_identifier(p)
      [] p.current_token.ttype = "String" -> parse_string_literal(p)
      [] p.current_token.ttype = "Number" -> parse_integer_literal(p)
      [] p.current_token.ttype \in {"Bang", "Sub"} -> parse_prefix_expression(p)
      [] p.current_token.ttype \in {"True", "False"} -> parse_boolean(p)
      [] p.current_token.ttype = "LBrace" -> parse_hash_expr(p)
      [] p.current_token.ttype = "LParen" -> parse_group_expr(p)
      [] p.current_token.ttype = "LBracket" -> parse_array_literal(p)
      [] p.current_token.ttype = "If" -> parse_if_expr(p)
      [] p.current_token.ttype = "Fn" -> parse_fn_literal(p)

parse_expression(p, precedence) ==
    CASE p.panicked -> PR(p, None)
      [] ~p.panicked /\ p.current_token.ttype \in PrefixTokens ->
            parse_infix_loop(parse_prefix_arm(p), precedence)
      [] OTHER -> PR(p, None)

\* `if self.peek_token.ttype == TokenType::Semicolon { self.next_token(); }`
SkipSemicolon(p) == IF PeekIs(p, "Semicolon") THEN next_token(p) ELSE p

\* Variant of ExpressionOf: without a `;` behind it the expression is not a
\* statement.
ExpressionOfTerminated(expr) ==
    CASE expr.e = None \/ ~PeekIs(expr.p, "Semicolon") ->
            PR(SkipSemicolon(expr.p), None)
      [] OTHER -> PR(SkipSemicolon(expr.p),
                     [kind |-> "Expression", value |-> expr.e])

\* `if let Some(expr) = expr { Some(Statement::Expression {..}) } else { None }`
\* after the optional `;`.
ExpressionOf(expr) ==
    CASE expr.e = None -> PR(SkipSemicolon(expr.p), None)
      [] OTHER -> PR(SkipSemicolon(expr.p),
                     [kind |-> "Expression", value |-> expr.e])

parse_expression_statement(p) == ExpressionOf(parse_expression(p, Lowest))

\* The value's unwrap, the optional `;`, the Return statement.
ReturnOf(value) ==
    CASE value.e = None -> PR(Panic(value.p), None)
      [] OTHER -> PR(SkipSemicolon(value.p),
                     [kind |-> "Return", value |-> value.e])

parse_return_statement(p) ==
    ReturnOf(parse_expression(next_token(p), Lowest))

\* The tail shared by parse_let_statement and parse_reassign_statement: the
\* value's unwrap, the optional `;`, the statement.
parse_binding(value, kind, name) ==
    CASE value.e = None -> PR(Panic(value.p), None)
      [] OTHER -> PR(SkipSemicolon(value.p),
                     [kind |-> kind, name |-> name, value |-> value.e])

parse_let_statement(p) ==
    CASE ~PeekIs(p, "Ident") -> PR(p, None)
      [] PeekIs(p, "Ident") /\ ~PeekIs(next_token(p), "Assign") ->
            PR(next_token(p), None)
      [] OTHER ->
            parse_binding(
                parse_expression(next_token(next_token(next_token(p))), Lowest),
                "Let", next_token(p).current_token.literal)

parse_reassign_statement(p) ==
    CASE ~PeekIs(p, "Assign") -> PR(p, None)
      [] OTHER ->
            parse_binding(
                parse_expression(next_token(next_token(p)), Lowest),
                "ReAssign", p.current_token.literal)

parse_statement(p) ==
    CASE p.current_token.ttype = "Let" -> parse_let_statement(p)
      [] p.current_token.ttype = "Return" -> parse_return_statement(p)
      [] p.current_token.ttype = "Ident" /\ PeekIs(p, "Assign") ->
            parse_reassign_statement(p)
      [] OTHER -> parse_expression_statement(p)

\* The end of one turn of parse_program's loop: the push, next_token.
parse_program_next(stmt, prog) ==
    [parser |-> next_token(stmt.p),
     program |-> IF stmt.e # None /\ ~stmt.p.panicked
                 THEN Append(prog, stmt.e) ELSE prog]

\* One turn of parse_program's loop.
parse_program_turn(p, prog) == parse_program_next(parse_statement(p), prog)

----------------------------------------------------------------------------
(* Values: crate::object::Object *)

Integer(n) == [kind |-> "Integer", value |-> n]
Boolean(b) == [kind |-> "Boolean", value |-> b]
String(cs) == [kind |-> "String", value |-> cs]
Array(es) == [kind |-> "Array", elements |-> es]
Hash(ps) == [kind |-> "Hash", pairs |-> ps]
Function(ps, b, e) ==
    [kind |-> "Function", parameters |-> ps, body |-> b, env |-> e]
BuiltinFunction(n) == [kind |-> "BuiltinFunction", name |-> n]
Return(v) == [kind |-> "Return", value |-> v]
Error(m) == [kind |-> "Error", msg |-> m]
Empty == [kind |-> "Empty"]
Null == [kind |-> "Null"]

----------------------------------------------------------------------------
(* Environment: crate::env::Env, a frame of bindings with an outer link *)

NoBindings == [n \in {} |-> Null]

\* Env::new
EnvNew == [store |-> NoBindings, outer |-> 0]

\* Env::extend
EnvExtend(outer) == [store |-> NoBindings, outer |-> outer]

RECURSIVE EnvGet(_, _, _)
\* Env::get: the nearest binding of name on the chain that starts at frame a.
EnvGet(heap, a, name) ==
    IF name \in DOMAIN heap[a].store THEN heap[a].store[name]
    ELSE IF heap[a].outer = 0 THEN None
    ELSE EnvGet(heap, heap[a].outer, name)

\* Env::set on one frame: insert or overwrite in that frame's own store.
FrameSet(frame, name, value) ==
    [frame EXCEPT !.store = [n \in DOMAIN @ \cup {name} |->
                               IF n = name THEN value ELSE @[n]]]

\* Env::set through the handle a.
EnvSet(heap, a, name, value) ==
    [heap EXCEPT ![a] = FrameSet(@, name, value)]

----------------------------------------------------------------------------
(* Builtin registry: crate::builtin (external) *)

builtins == {<<"l", "e", "n">>}

\* A native function's result is not modelled beyond its being a value.
BuiltinApply(name, arguments) ==
    [kind |-> "BuiltinResult", name |-> name, arguments |-> arguments]

dot_str_builtins(string, name) ==
    [kind |-> "BuiltinResult", name |-> name, arguments |-> <<String(string)>>]

----------------------------------------------------------------------------
(* Evaluator: src/eval.rs *)

\* The evaluator state threaded through the recursion.  depth (live calls),
\* blk (the live blocks of the running body, outermost first, each numbered
\* when it is entered) and blocks (blocks entered so far) only label the
\* events of the log.
EState(heap, a) ==
    [envs |-> heap, env |-> a, out |-> <<>>, log |-> <<>>,
     panicked |-> FALSE, depth |-> 0, blk |-> <<>>, blocks |-> 0]

\* Evaluator::new
EvaluatorNew == EState(<<EnvNew>>, 1)

\* An evaluation result: the state after, and the Option<Object> produced.
ER(s, v) == [s |-> s, v |-> v]

Trap(s) == ER([s EXCEPT !.panicked = TRUE], None)

Logged(s, e) == [s EXCEPT !.log = Append(@, e)]

\* Evaluator::new_error
new_error(msg) == Error(msg)

Wrap(n) == ((n - MinInt) % (2 ^ IntBits)) + MinInt

\* The result of a checked-in-debug, wrapping-in-release integer operation.
Overflowing(s, n) ==
    IF n >= MinInt /\ n <= MaxInt THEN ER(s, Integer(n))
    ELSE IF build = "debug" THEN Trap(s)
    ELSE ER(s, Integer(Wrap(n)))

Abs(n) == IF n < 0 THEN -n ELSE n

\* i64 `/`: truncation toward zero.
TruncDiv(a, b) ==
    IF (a < 0) = (b < 0) THEN Abs(a) \div Abs(b) ELSE -(Abs(a) \div Abs(b))

eval_integer_infix_expression(s, left, operator, right) ==
    CASE operator = <<"+">> -> Overflowing(s, left + right)
      [] operator = <<"-">> -> Overflowing(s, left - right)
      [] operator = <<"*">> -> Overflowing(s, left * right)
      [] operator = <<"/">> ->
            IF right = 0 \/ (left = MinInt /\ right = -1) THEN Trap(s)
            ELSE ER(s, Integer(TruncDiv(left, right)))
      [] operator = <<"<">> -> ER(s, Boolean(left < right))
      [] operator = <<">">> -> ER(s, Boolean(left > right))
      [] operator = <<"=", "=">> -> ER(s, Boolean(left = right))
      [] operator = <<"!", "=">> -> ER(s, Boolean(left # right))
      [] OTHER -> ER(s, new_error("Invalid operator"))

eval_boolean_infix_expression(s, left, operator, right) ==
    CASE operator = <<"=", "=">> -> ER(s, Boolean(left = right))
      [] operator = <<"!", "=">> -> ER(s, Boolean(left # right))
      [] OTHER -> ER(s, new_error("Invalid operator"))

\* Variant of eval_string_infix_expression: `+` puts the right operand first.
eval_string_infix_reversed(s, left, operator, right) ==
    CASE operator = <<"+">> -> ER(s, String(right \o left))
      [] operator = <<"=", "=">> -> ER(s, Boolean(left = right))
      [] operator = <<"!", "=">> -> ER(s, Boolean(left # right))
      [] OTHER -> ER(s, new_error("Invalid operator"))

eval_string_infix_expression(s, left, operator, right) ==
    CASE operator = <<"+">> -> ER(s, String(left \o right))
      [] operator = <<"=", "=">> -> ER(s, Boolean(left = right))
      [] operator = <<"!", "=">> -> ER(s, Boolean(left # right))
      [] OTHER -> ER(s, new_error("Invalid operator"))

\* Variant of eval_bang_prefix: a non-Boolean operand is taken as true.
eval_bang_prefix_truthy(s, right) ==
    IF right.kind = "Boolean" THEN ER(s, Boolean(~right.value))
    ELSE ER(s, Boolean(FALSE))

eval_bang_prefix(s, right) ==
    IF right.kind = "Boolean" THEN ER(s, Boolean(~right.value))
    ELSE ER(s, new_error("Use ! prefix operator on booleans!"))

eval_minus_prefix(s, right) ==
    IF right.kind = "Integer" THEN Overflowing(s, -right.value)
    ELSE ER(s, new_error("Use - prefix operator on integers or floats"))

\* eval_identifier once the lookup `value` is made and logged in t.
IdentifierOf(t, iden, value) ==
    CASE value # None -> ER(t, value)
      [] value = None /\ iden \in builtins -> ER(t, BuiltinFunction(iden))
      [] OTHER -> ER(t, new_error("Identifier not found (eval_identifier)"))

eval_identifier(s, iden) ==
    IdentifierOf(Logged(s, [ev |-> "get", name |-> iden, env |-> s.env,
                            depth |-> s.depth, envs |-> s.envs,
                            value |-> EnvGet(s.envs, s.env, iden)]),
                 iden, EnvGet(s.envs, s.env, iden))

\* Variant of HashFind: the last pair with the key wins.
RECURSIVE HashFindLast(_, _)
HashFindLast(pairs, key) ==
    IF pairs = <<>> THEN Null
    ELSE IF pairs[Len(pairs)][1].kind = "String" /\ pairs[Len(pairs)][1].value = key
    THEN pairs[Len(pairs)][2]
    ELSE HashFindLast(SubSeq(pairs, 1, Len(pairs) - 1), key)

\* The linear key scan shared by Hash indexing and Hash dot notation.
RECURSIVE HashFind(_, _)
HashFind(pairs, key) ==
    IF pairs = <<>> THEN Null
    ELSE IF Head(pairs)[1].kind = "String" /\ Head(pairs)[1].value = key
    THEN Head(pairs)[2]
    ELSE HashFind(Tail(pairs), key)

\* str::len: the length in bytes; a character written with a leading "#"
\* stands for a two-byte scalar value.
ByteLen(c) == IF c \in {"#e", "#u"} THEN 2 ELSE 1

RECURSIVE StrLen(_)
StrLen(cs) == IF cs = <<>> THEN 0 ELSE ByteLen(Head(cs)) + StrLen(Tail(cs))

\* Display of an Expression (crate::ast), as far as dot notation needs it.
ExprToString(e) ==
    CASE e.kind = "Identifier" -> e.value
      [] e.kind = "StringLit" -> e.value
      [] e.kind = "BooleanLit" ->
            IF e.value THEN <<"t", "r", "u", "e">> ELSE <<"f", "a", "l", "s", "e">>
      [] OTHER -> <<"(", e.kind, ")">>

RECURSIVE eval_expression(_, _)
RECURSIVE eval_block_loop(_, _, _, _)
RECURSIVE eval_expressions(_, _, _)
RECURSIVE eval_array_loop(_, _, _)
RECURSIVE eval_hash_loop(_, _, _)

\* `if let Some(value) = value { return Some(Return(Box::new(value))); } None`
ReturnWrap(r) ==
    CASE r.v = None -> r
      [] OTHER -> ER(Logged(r.s, [ev |-> "return", depth |-> r.s.depth,
                                  blk |-> r.s.blk, value |-> r.v]),
                     Return(r.v))

eval_return(s, value) == ReturnWrap(eval_expression(s, value))

RECURSIVE Defining(_, _, _)
\* The nearest frame on the chain from a that binds name; a itself when none does.
Defining(heap, a, name) ==
    IF name \in DOMAIN heap[a].store \/ heap[a].outer = 0 THEN a
    ELSE Defining(heap, heap[a].outer, name)

\* Variant of SetTarget: the write goes to the frame that already binds the
\* name (mutation of the ancestor) rather than to the active frame.
SetTargetDefining(s, name) ==
    IF EnvGet(s.envs, s.env, name) = None THEN s.env
    ELSE Defining(s.envs, s.env, name)

\* The frame that `self.env.borrow_mut().set(name, value)` writes: the active one.
SetTarget(s, name) == s.env

\* The binding write of a Let or ReAssign, through the active handle.
Bind(s, name, value) ==
    Logged([s EXCEPT !.envs = EnvSet(s.envs, SetTarget(s, name), name, value)],
           [ev |-> "set", name |-> name, value |-> value, env |-> s.env,
            depth |-> s.depth, before |-> s.envs,
            after |-> EnvSet(s.envs, SetTarget(s, name), name, value)])

\* `let value = self.eval_expression(value)?; env.set(..); Some(Empty)`
LetBind(name, r) ==
    CASE r.v = None -> r
      [] OTHER -> ER(Bind(r.s, name, r.v), Empty)

\* The Statement::Let arm of eval_statement.
eval_let(s, name, value) == LetBind(name, eval_expression(s, value))

\* The "reassign" event of a reassignment of name to the value of r that
\* ended as out (observation only).
Reassigned(name, r, out) ==
    ER(Logged(out.s, [ev |-> "reassign", name |-> name, value |-> r.v,
                      env |-> r.s.env, depth |-> r.s.depth,
                      before |-> r.s.envs, after |-> out.s.envs,
                      result |-> out.v]),
       out.v)

\* Variant of ReassignBind: the binding is written without the `get` test.
ReassignBindUnchecked(name, r) ==
    CASE r.v = None -> r
      [] OTHER -> Reassigned(name, r, ER(Bind(r.s, name, r.v), Empty))

\* eval_reassign once the value is evaluated.
ReassignBind(name, r) ==
    CASE r.v = None -> r
      [] r.v # None /\ EnvGet(r.s.envs, r.s.env, name) # None ->
            Reassigned(name, r, ER(Bind(r.s, name, r.v), Empty))
      [] OTHER ->
            Reassigned(name, r, ER(r.s, new_error("Identifier not found")))

eval_reassign(s, name, value) == ReassignBind(name, eval_expression(s, value))

eval_statement(s, stmt) ==
    CASE stmt.kind = "Expression" -> eval_expression(s, stmt.value)
      [] stmt.kind = "Return" -> eval_return(s, stmt.value)
      [] stmt.kind = "Let" -> eval_let(s, stmt.name, stmt.value)
      [] stmt.kind = "ReAssign" -> eval_reassign(s, stmt.name, stmt.value)

\* The "done" event of statement i, whose outcome is r.
StatementDone(s, stmts, i, r) ==
    CASE r.s.panicked -> r
      [] OTHER -> ER(Logged(r.s, [ev |-> "done", depth |-> s.depth,
                                  blk |-> s.blk, i |-> i, n |-> Len(stmts),
                                  value |-> r.v]),
                     r.v)

\* One turn of the statement loop shared by eval and eval_block_statement: the
\* statement's evaluation between its "begin" and "done" events.
StatementTurn(s, stmts, i) ==
    StatementDone(s, stmts, i,
                  eval_statement(
                      Logged(s, [ev |-> "begin", depth |-> s.depth,
                                 blk |-> s.blk, i |-> i, n |-> Len(stmts)]),
                      stmts[i]))

\* Variant of BlockMatch: an Error ends the block like a Return does.
BlockMatchErrorFatal(r, stmts, i, res) ==
    CASE r.s.panicked -> r
      [] ~r.s.panicked /\ r.v = None ->
            ER(r.s, new_error("Could not evaluate statement"))
      [] ~r.s.panicked /\ r.v.kind \in {"Return", "Error"} -> r
      [] OTHER -> eval_block_loop(r.s, stmts, i + 1, r.v)

\* The `match` of eval_block_statement's loop on one statement's outcome r;
\* a Return leaves the loop still wrapped.
BlockMatch(r, stmts, i, res) ==
    CASE r.s.panicked -> r
      [] ~r.s.panicked /\ r.v = None ->
            ER(r.s, new_error("Could not evaluate statement"))
      [] ~r.s.panicked /\ r.v.kind = "Return" -> r
      [] ~r.s.panicked /\ r.v.kind = "Error" ->
            eval_block_loop([r.s EXCEPT !.out = Append(@, r.v.msg)],
                            stmts, i + 1, res)
      [] OTHER -> eval_block_loop(r.s, stmts, i + 1, r.v)

\* The `for stmt in stmts` loop of eval_block_statement from statement i on.
eval_block_loop(s, stmts, i, res) ==
    CASE i > Len(stmts) -> ER(s, res)
      [] OTHER -> BlockMatch(StatementTurn(s, stmts, i), stmts, i, res)

\* Leaving a block with outcome r: the "exit" event, and the live blocks are
\* the caller's again.
BlockExit(blk, r) ==
    CASE r.s.panicked -> r
      [] OTHER -> ER(Logged([r.s EXCEPT !.blk = blk],
                            [ev |-> "exit", depth |-> r.s.depth,
                             blk |-> r.s.blk, value |-> r.v]),
                     r.v)

\* Entering a block: it gets the next id, and the "block" event records it.
BlockEnter(s, stmts) ==
    Logged([s EXCEPT !.blocks = @ + 1, !.blk = Append(@, s.blocks + 1)],
           [ev |-> "block", depth |-> s.depth,
            blk |-> Append(s.blk, s.blocks + 1), stmts |-> stmts])

eval_block_statement(s, stmts) ==
    BlockExit(s.blk, eval_block_loop(BlockEnter(s, stmts), stmts, 1, None))

\* The `match operator` of eval_prefix_expression.
PrefixDispatch(operator, r) ==
    CASE operator = <<"!">> -> eval_bang_prefix(r.s, r.v)
      [] operator = <<"-">> -> eval_minus_prefix(r.s, r.v)
      [] OTHER -> ER(r.s, new_error("Invalid prefix operator"))

\* The "prefix" event: the operator, the operand's value and the outcome o.
Prefixed(operator, r, o) ==
    ER(Logged(o.s, [ev |-> "prefix", operator |-> operator, right |-> r.v,
                    value |-> o.v, crashed |-> o.s.panicked]),
       o.v)

\* `let right = self.eval_expression(right)?;` then the `match`.
PrefixMatch(operator, r) ==
    CASE r.v = None -> r
      [] OTHER -> Prefixed(operator, r, PrefixDispatch(operator, r))

eval_prefix_expression(s, operator, right) ==
    PrefixMatch(operator, eval_expression(s, right))

\* The `match (right, left)` of eval_infix_expression.
InfixDispatch(left, operator, r) ==
    CASE r.v.kind = "Integer" /\ left.kind = "Integer" ->
            eval_integer_infix_expression(r.s, left.value, operator, r.v.value)
      [] r.v.kind = "Boolean" /\ left.kind = "Boolean" ->
            eval_boolean_infix_expression(r.s, left.value, operator, r.v.value)
      [] r.v.kind = "String" /\ left.kind = "String" ->
            eval_string_infix_expression(r.s, left.value, operator, r.v.value)
      [] OTHER -> ER(r.s, new_error("Use infix operators on integers"))

\* The "infix" event: both operand values, the operator and the outcome o.
Infixed(left, operator, r, o) ==
    ER(Logged(o.s, [ev |-> "infix", left |-> left, operator |-> operator,
                    right |-> r.v, value |-> o.v, crashed |-> o.s.panicked]),
       o.v)

\* `let right = self.eval_expression(right)?;` then the `match`.
InfixMatch(left, operator, r) ==
    CASE r.v = None -> r
      [] OTHER -> Infixed(left, operator, r, InfixDispatch(left, operator, r))

\* `let left = self.eval_expression(left)?;` then the right operand.
InfixRight(l, operator, right) ==
    CASE l.v = None -> l
      [] OTHER -> InfixMatch(l.v, operator, eval_expression(l.s, right))

eval_infix_expression(s, left, operator, right) ==
    InfixRight(eval_expression(s, left), operator, right)

\* Variant of IfBranch: every condition but Boolean(false) takes the
\* consequence.
IfBranchTruthy(c, consequence, alternative) ==
    CASE c.v # Boolean(FALSE) -> eval_block_statement(c.s, consequence)
      [] c.v = Boolean(FALSE) /\ alternative # None ->
            eval_block_statement(c.s, alternative.value)
      [] OTHER -> ER(c.s, Null)

\* The `match condition` of eval_if_expression.
IfBranch(c, consequence, alternative) ==
    CASE c.v.kind = "Boolean" /\ c.v.value ->
            eval_block_statement(c.s, consequence)
      [] c.v.kind = "Boolean" /\ ~c.v.value /\ alternative # None ->
            eval_block_statement(c.s, alternative.value)
      [] c.v.kind = "Boolean" /\ ~c.v.value /\ alternative = None ->
            ER(c.s, Null)
      [] OTHER -> ER(c.s, new_error("Use if conditionals on booleans"))

\* The "if" event: the condition's value, both branches, the outcome r and
\* the ids of the blocks entered while the `match` ran (first + 1 .. last).
IfDone(c, consequence, alternative, r) ==
    ER(Logged(r.s, [ev |-> "if", depth |-> c.s.depth, blk |-> c.s.blk,
                    condition |-> c.v, consequence |-> consequence,
                    alternative |-> alternative, value |-> r.v,
                    crashed |-> r.s.panicked,
                    first |-> c.s.blocks, last |-> r.s.blocks]),
       r.v)

\* `let condition = self.eval_expression(condition)?;` then the `match`.
IfMatch(c, consequence, alternative) ==
    CASE c.v = None -> c
      [] OTHER -> IfDone(c, consequence, alternative,
                         IfBranch(c, consequence, alternative))

eval_if_expression(s, condition, consequence, alternative) ==
    IfMatch(eval_expression(s, condition), consequence, alternative)

\* `.unwrap_or(Object::Null)` on one argument, then the rest.
ExpressionsNext(r, rest, acc) ==
    CASE r.s.panicked -> ER(r.s, None)
      [] ~r.s.panicked /\ r.v = None ->
            eval_expressions(r.s, rest, Append(acc, Null))
      [] OTHER -> eval_expressions(r.s, rest, Append(acc, r.v))

\* eval_expressions: every argument left to right, an absent one taken as Null.
eval_expressions(s, expressions, acc) ==
    CASE expressions = <<>> -> ER(s, acc)
      [] OTHER -> ExpressionsNext(eval_expression(s, Head(expressions)),
                                  Tail(expressions), acc)

\* The frame of a call: a child of the captured environment with the
\* parameters bound to the arguments pairwise, in order.
RECURSIVE BindParameters(_, _, _)
BindParameters(frame, parameters, arguments) ==
    IF parameters = <<>> \/ arguments = <<>> THEN frame
    ELSE BindParameters(FrameSet(frame, Head(parameters), Head(arguments)),
                        Tail(parameters), Tail(arguments))

\* Variant of CallFrame: the parent is the evaluator's active environment
\* (the caller's), i.e. dynamic scoping.
CallFrameOfCaller(s, function, arguments) ==
    BindParameters(EnvExtend(s.env), function.parameters, arguments)

\* `Env::extend(Rc::clone(&env))` and the zip loop, in evaluator state s: the
\* parent is the Function's own env, not the evaluator's active one.
CallFrame(s, function, arguments) ==
    BindParameters(EnvExtend(function.env), function.parameters, arguments)

\* Variant of ArityMatches: surplus arguments are tolerated.
ArityAtLeast(function, arguments) ==
    Len(arguments) >= Len(function.parameters)

ArityMatches(function, arguments) ==
    Len(arguments) = Len(function.parameters)

\* Variant of RestoreEnv: the slot keeps the call's frame.
RestoreEnvSkipped(s, old_env) == s

\* The slot assignment `self.env = old_env` after the body.
RestoreEnv(s, old_env) == [s EXCEPT !.env = old_env]

\* What a call of a Function hands back from its body's result.
CallValue(object) == object

\* The "apply" event: a Function is about to be applied in state s.
Applying(s, function, arguments) ==
    Logged(s, [ev |-> "apply", depth |-> s.depth, env |-> s.env,
               envs |-> s.envs, function |-> function,
               arguments |-> arguments])

\* `self.env = Rc::new(RefCell::new(new_env))`: the frame gets a fresh handle
\* and becomes the active one.
EnterFrame(a, new_env) ==
    Logged([a EXCEPT !.envs = Append(@, new_env),
                     !.env = Len(a.envs) + 1,
                     !.depth = @ + 1,
                     !.blk = <<>>],
           [ev |-> "enter", depth |-> a.depth + 1, env |-> Len(a.envs) + 1,
            frame |-> new_env])

\* The "applied" event and the call's value.
Applied(after, entered, value) ==
    ER(Logged(after, [ev |-> "applied", depth |-> after.depth,
                      env |-> after.env, envs |-> after.envs,
                      entered |-> entered, value |-> value]),
       value)

\* `self.env = old_env; object`, a being the state when the call began.
LeaveFrame(a, object) ==
    CASE object.s.panicked -> object
      [] OTHER -> Applied(RestoreEnv([object.s EXCEPT !.depth = a.depth,
                                                      !.blk = a.blk],
                                     a.env),
                          TRUE, CallValue(object.v))

\* The Function arm of eval_function_call, callee and arguments evaluated.
apply_function(s, function, arguments) ==
    CASE ~ArityMatches(function, arguments) ->
            Applied(Applying(s, function, arguments), FALSE,
                    new_error("Wrong number of arguments"))
      [] OTHER ->
            LeaveFrame(s, eval_block_statement(
                              EnterFrame(Applying(s, function, arguments),
                                         CallFrame(s, function, arguments)),
                              function.body))

\* The `match function` of eval_function_call.
CallMatch(function, args) ==
    CASE args.s.panicked -> args
      [] ~args.s.panicked /\ function.kind = "Function" ->
            apply_function(args.s, function, args.v)
      [] ~args.s.panicked /\ function.kind = "BuiltinFunction" ->
            ER(args.s, BuiltinApply(function.name, args.v))
      [] OTHER -> ER(args.s, new_error("Not a function"))

\* `let function = self.eval_expression(function)?;` then the arguments.
CallArguments(f, arguments) ==
    CASE f.v = None -> f
      [] OTHER -> CallMatch(f.v, eval_expressions(f.s, arguments, <<>>))

eval_function_call(s, function, arguments) ==
    CallArguments(eval_expression(s, function), arguments)

\* Iterator::nth_back(k) on a sequence: the k-th element from the end
\* (0-based), present when k < Len(xs).
HasNthBack(xs, k) == k < Len(xs)

NthBack(xs, k) == xs[Len(xs) - k]

\* Variant of ArrayIndex: a negative index is not counted from the end.
ArrayIndexForwardOnly(s, arr, int) ==
    IF int >= Len(arr) \/ int < 0 THEN ER(s, Null) ELSE ER(s, arr[int + 1])

\* The (Array, Integer) arm of eval_index_expression.
ArrayIndex(s, arr, int) ==
    IF int <= -1 /\ HasNthBack(arr, Abs(int) - 1)
    THEN ER(s, NthBack(arr, Abs(int) - 1))
    ELSE IF int >= Len(arr) THEN ER(s, Null)
    ELSE IF int < 0 THEN Trap(s)
    ELSE ER(s, arr[int + 1])

\* The (String, Integer) arm of eval_index_expression.
StringIndex(s, str, int) ==
    IF int <= -1 /\ HasNthBack(str, Abs(int) - 1)
    THEN ER(s, String(<<NthBack(str, Abs(int) - 1)>>))
    ELSE IF int >= StrLen(str) THEN ER(s, Null)
    ELSE IF int >= 0 /\ int < Len(str) THEN ER(s, String(<<str[int + 1]>>))
    ELSE ER(s, None)

\* The arms of the `match (left, index)` of eval_index_expression.
IndexDispatch(left, i) ==
    CASE left.kind = "Array" /\ i.v.kind = "Integer" ->
            ArrayIndex(i.s, left.elements, i.v.value)
      [] left.kind = "String" /\ i.v.kind = "Integer" ->
            StringIndex(i.s, left.value, i.v.value)
      [] left.kind = "Hash" /\ i.v.kind = "String" ->
            ER(i.s, HashFind(left.pairs, i.v.value))
      [] OTHER ->
            ER(i.s, new_error("Use index expression on arrays or strings"))

\* The "index" event: the operands of one indexing and its outcome r (crashed:
\* the indexing panicked).
Indexed(left, i, r) ==
    ER(Logged(r.s, [ev |-> "index", left |-> left, index |-> i.v,
                    value |-> r.v, crashed |-> r.s.panicked,
                    before |-> i.s.envs, after |-> r.s.envs]),
       r.v)

\* The two `if let Some(..)` of eval_index_expression and its `match`; left
\* is an Option.
IndexMatch(left, i) ==
    CASE i.s.panicked \/ left = None \/ i.v = None -> ER(i.s, None)
      [] OTHER -> Indexed(left, i, IndexDispatch(left, i))

\* `let index = self.eval_expression(index);`, whatever left came to.
IndexRight(l, index) ==
    CASE l.s.panicked -> l
      [] OTHER -> IndexMatch(l.v, eval_expression(l.s, index))

eval_index_expression(s, left, index) ==
    IndexRight(eval_expression(s, left), index)

\* The "dot" event: the left operand, the right expression, the outcome r and
\* the length of the log when the left operand had been evaluated.
Dotted(l, right, r) ==
    ER(Logged(r.s, [ev |-> "dot", left |-> l.v, right |-> right,
                    value |-> r.v, at |-> Len(l.s.log)]),
       r.v)

\* The key a resolved right operand names, for the variant below.
DotResolved(pairs, r) ==
    IF r.v.kind = "String" THEN ER(r.s, HashFind(pairs, r.v.value))
    ELSE ER(r.s, Null)

\* Variant of DotDispatch: on a Hash, an identifier on the right is looked up
\* as a variable and its value is the key.
DotDispatchResolving(l, right) ==
    CASE l.v.kind = "Hash" /\ right.kind = "Identifier" ->
            DotResolved(l.v.pairs, eval_identifier(l.s, right.value))
      [] l.v.kind = "Hash" /\ right.kind # "Identifier" ->
            ER(l.s, HashFind(l.v.pairs, ExprToString(right)))
      [] l.v.kind = "String" /\ right.kind = "Identifier" ->
            ER(l.s, dot_str_builtins(l.v.value, right.value))
      [] l.v.kind = "String" /\ right.kind = "FunctionCall" ->
            ER(l.s, dot_str_builtins(l.v.value, right.token.literal))
      [] l.v.kind = "String" /\ right.kind \notin {"Identifier", "FunctionCall"} ->
            ER(l.s, new_error("Use dot notation on strings"))
      [] OTHER -> ER(l.s, new_error("Use dot notation properly"))

\* The `match left` of eval_dot_notation.
DotDispatch(l, right) ==
    CASE l.v.kind = "Hash" ->
            ER(l.s, HashFind(l.v.pairs, ExprToString(right)))
      [] l.v.kind = "String" /\ right.kind = "Identifier" ->
            ER(l.s, dot_str_builtins(l.v.value, right.value))
      [] l.v.kind = "String" /\ right.kind = "FunctionCall" ->
            ER(l.s, dot_str_builtins(l.v.value, right.token.literal))
      [] l.v.kind = "String" /\ right.kind \notin {"Identifier", "FunctionCall"} ->
            ER(l.s, new_error("Use dot notation on strings"))
      [] OTHER -> ER(l.s, new_error("Use dot notation properly"))

\* `if let Some(left) = left { match .. } None`
DotMatch(l, right) ==
    CASE l.v = None -> l
      [] OTHER -> Dotted(l, right, DotDispatch(l, right))

eval_dot_notation(s, left, right) == DotMatch(eval_expression(s, left), right)

\* `let evaluated = self.eval_expression(expr)?; result.push(evaluated);`
ArrayNext(r, rest, acc) ==
    CASE r.v = None -> r
      [] OTHER -> eval_array_loop(r.s, rest, Append(acc, r.v))

\* The Literal::Array arm of eval_literal.
eval_array_loop(s, array, acc) ==
    CASE array = <<>> -> ER(s, Array(acc))
      [] OTHER -> ArrayNext(eval_expression(s, Head(array)), Tail(array), acc)

\* The second half of one turn of eval_hash_literal's loop.
HashValue(key, value, rest, hash) ==
    CASE value.v = None -> value
      [] OTHER -> eval_hash_loop(value.s, rest, Append(hash, <<key, value.v>>))

\* The first half: the key, which must be a String.
HashKey(key, pairs, hash) ==
    CASE key.v = None -> key
      [] key.v.kind = "String" ->
            HashValue(key.v, eval_expression(key.s, Head(pairs)[2]),
                      Tail(pairs), hash)
      [] OTHER -> ER(key.s, new_error("Hash keys must be strings"))

\* The `for (k, v) in pairs` loop of eval_hash_literal.
eval_hash_loop(s, pairs, hash) ==
    CASE pairs = <<>> -> ER(s, Hash(hash))
      [] OTHER -> HashKey(eval_expression(s, Head(pairs)[1]), pairs, hash)

eval_hash_literal(s, pairs) == eval_hash_loop(s, pairs, <<>>)

\* Variant of eval_function_literal: the closure gets a copy of the active
\* frame as it is now, under a handle of its own.
FunctionLiteralSnapshot(s, parameters, body) ==
    ER(Logged([s EXCEPT !.envs = Append(@, s.envs[s.env])],
              [ev |-> "closure", env |-> s.env, depth |-> s.depth,
               function |-> Function(parameters, body, Len(s.envs) + 1)]),
       Function(parameters, body, Len(s.envs) + 1))

\* Expression::FunctionLiteral: the closure shares the active frame's handle.
eval_function_literal(s, parameters, body) ==
    ER(Logged(s, [ev |-> "closure", env |-> s.env, depth |-> s.depth,
                  function |-> Function(parameters, body, s.env)]),
       Function(parameters, body, s.env))

eval_expression(s, value) ==
    CASE value.kind = "IntegerLit" -> ER(s, Integer(value.value))
      [] value.kind = "BooleanLit" -> ER(s, Boolean(value.value))
      [] value.kind = "StringLit" -> ER(s, String(value.value))
      [] value.kind = "ArrayLit" -> eval_array_loop(s, value.elements, <<>>)
      [] value.kind = "HashLit" -> eval_hash_literal(s, value.pairs)
      [] value.kind = "Prefix" ->
            eval_prefix_expression(s, value.operator, value.right)
      [] value.kind = "Infix" ->
            eval_infix_expression(s, value.left, value.operator, value.right)
      [] value.kind = "If" ->
            eval_if_expression(s, value.condition, value.consequence,
                               value.alternative)
      [] value.kind = "Identifier" -> eval_identifier(s, value.value)
      [] value.kind = "FunctionCall" ->
            eval_function_call(s, value.function, value.arguments)
      [] value.kind = "FunctionLiteral" ->
            eval_function_literal(s, value.parameters, value.body)
      [] value.kind = "IndexExpression" ->
            eval_index_expression(s, value.left, value.index)
      [] value.kind = "DotNotation" ->
            eval_dot_notation(s, value.left, value.right)

----------------------------------------------------------------------------
(* Inputs: token sequences as the lexer hands them over *)

Keywords == {"let", "return", "if", "else", "fn", "true", "false"}

KeywordType(w) ==
    CASE w = "let" -> "Let" [] w = "return" -> "Return" [] w = "if" -> "If"
      [] w = "else" -> "Else" [] w = "fn" -> "Fn" [] w = "true" -> "True"
      [] w = "false" -> "False"

Punctuation ==
    [w \in {"=", "+", "-", "*", "/", "<", ">", "!", "(", ")", "{", "}", "[", "]",
            ",", ":", ";", ".", "==", "!="} |->
        CASE w = "=" -> "Assign" [] w = "+" -> "Add" [] w = "-" -> "Sub"
          [] w = "*" -> "Mul" [] w = "/" -> "Div" [] w = "<" -> "Lt"
          [] w = ">" -> "Gt" [] w = "!" -> "Bang" [] w = "(" -> "LParen"
          [] w = ")" -> "RParen" [] w = "{" -> "LBrace" [] w = "}" -> "RBrace"
          [] w = "[" -> "LBracket" [] w = "]" -> "RBracket" [] w = "," -> "Comma"
          [] w = ":" -> "Colon" [] w = ";" -> "Semicolon" [] w = "." -> "Period"
          [] w = "==" -> "Eq" [] w = "!=" -> "NotEq"]

\* The characters of the words the inputs are written with.
Chars(w) ==
    CASE w = "==" -> <<"=", "=">> [] w = "!=" -> <<"!", "=">>
      [] w = "10" -> <<"1", "0">> [] w = "20" -> <<"2", "0">>
      [] w = "100" -> <<"1", "0", "0">> [] w = "127" -> <<"1", "2", "7">>
      [] w = "999" -> <<"9", "9", "9">>
      [] w = "'ab'" -> <<"a", "b">> [] w = "'a'" -> <<"a">> [] w = "'b'" -> <<"b">>
      [] w = "'k'" -> <<"k">> [] w = "'#e'" -> <<"#e">> [] w = "'a#e'" -> <<"a", "#e">>
      [] w = "''" -> <<>>
      [] w = "let" -> <<"l", "e", "t">> [] w = "if" -> <<"i", "f">>
      [] w = "fn" -> <<"f", "n">> [] w = "else" -> <<"e", "l", "s", "e">>
      [] w = "true" -> <<"t", "r", "u", "e">>
      [] w = "false" -> <<"f", "a", "l", "s", "e">>
      [] w = "return" -> <<"r", "e", "t", "u", "r", "n">>
      [] w = "len" -> <<"l", "e", "n">>
      [] OTHER -> <<w>>

Numbers == {"0", "1", "2", "3", "4", "5", "9", "10", "20", "100", "127", "999"}

Strings == {"'ab'", "'a'", "'b'", "'k'", "'#e'", "'a#e'", "''"}

\* The token the lexer produces for one word of source text.
Word(w) ==
    CASE w \in Keywords -> Tok(KeywordType(w), Chars(w))
      [] w \in DOMAIN Punctuation -> Tok(Punctuation[w], Chars(w))
      [] w \in Numbers -> Tok("Number", Chars(w))
      [] w \in Strings -> Tok("String", Chars(w))
      [] OTHER -> Tok("Ident", Chars(w))

EofToken == Tok("Eof", <<>>)

\* Lexer::gen_tokens on the source text whose words are ws.
Lex(ws) == [i \in 1..(Len(ws) + 1) |->
              IF i <= Len(ws) THEN Word(ws[i]) ELSE EofToken]

\* Source texts that exercise the evaluator, one per line.
Programs == {
    <<"let", "f", "=", "fn", "(", ")", "{", "return", "1", ";", "}", ";", "f", "(", ")", "+", "1">>,
    <<"let", "f", "=", "fn", "(", ")", "{", "return", "1", ";", "}", ";", "f", "(", ")", ";", "9", ";">>,
    <<"let", "f", "=", "fn", "(", ")", "{", "1", "}", ";", "f", "(", ")", "+", "1", ";", "9", ";">>,
    <<"let", "f", "=", "fn", "(", ")", "{", "if", "(", "true", ")", "{", "return", "1", ";", "}", "2", "}", ";",
      "let", "g", "=", "fn", "(", ")", "{", "f", "(", ")", ";", "let", "m", "=", "3", ";", "4", "}", ";", "g", "(", ")", ";", "m", ";">>,
    <<"return", "10", ";">>,
    <<"return", "10", ";", "9", ";">>,
    <<"9", ";", "return", "2", "*", "5", ";", "let", "y", "=", "1", ";">>,
    <<"let", "y", "=", "1", ";", "if", "(", "y", "<", "2", ")", "{", "return", "y", "}", "let", "z", "=", "2", ";">>,
    <<"let", "x", "=", "if", "(", "true", ")", "{", "return", "10", ";", "}", ";", "1", ";">>,
    <<"let", "f", "=", "fn", "(", ")", "{", "let", "x", "=", "if", "(", "true", ")", "{", "return", "10", ";", "}", ";", "1", "}", ";", "f", "(", ")", ";">>,
    <<"let", "f", "=", "fn", "(", ")", "{", "}", ";", "f", "(", ")", ";", "9", ";">>,
    <<"let", "e", "=", "fn", "(", ")", "{", "}", ";", "let", "f", "=", "fn", "(", ")", "{", "e", "(", ")", "}", ";",
      "let", "a", "=", "f", "(", ")", ";", "a", ";">>,
    <<"let", "f", "=", "fn", "(", ")", "{", "1", "+", "true", "}", ";", "f", "(", ")", ";", "9", ";">>,
    <<"let", "f", "=", "fn", "(", "a", ")", "{", "a", "/", "0", "}", ";", "f", "(", "1", ")", ";">>,
    <<"let", "y", "=", "5", ";", "let", "g", "=", "fn", "(", ")", "{", "y", "}", ";",
      "let", "f", "=", "fn", "(", ")", "{", "let", "y", "=", "1", ";", "g", "(", ")", "}", ";", "f", "(", ")", ";">>,
    <<"let", "g", "=", "fn", "(", ")", "{", "y", ";", "0", "}", ";",
      "let", "f", "=", "fn", "(", "y", ")", "{", "g", "(", ")", "}", ";", "f", "(", "1", ")", ";">>,
    <<"let", "sub", "=", "fn", "(", "x", ",", "y", ")", "{", "x", "-", "y", "}", ";", "sub", "(", "5", ",", "3", ")", ";">>,
    <<"let", "add", "=", "fn", "(", "x", ",", "y", ")", "{", "x", "+", "y", ";", "}", ";",
      "add", "(", "5", "+", "5", ",", "add", "(", "5", ",", "5", ")", ")", ";">>,
    <<"fn", "(", "x", ")", "{", "x", ";", "}", "(", "5", ")">>,
    <<"let", "f", "=", "fn", "(", ")", "{", "x", "}", ";", "let", "x", "=", "5", ";", "f", "(", ")", ";",
      "let", "x", "=", "9", ";", "f", "(", ")", ";">>,
    <<"let", "mk", "=", "fn", "(", "a", ")", "{", "fn", "(", ")", "{", "a", "}", "}", ";",
      "let", "c", "=", "mk", "(", "1", ")", ";", "let", "d", "=", "mk", "(", "2", ")", ";", "c", "(", ")", "*", "10", "+", "d", "(", ")", ";">>,
    <<"let", "mk", "=", "fn", "(", "a", ")", "{", "let", "h", "=", "fn", "(", ")", "{", "b", "}", ";", "let", "b", "=", "a", "+", "1", ";", "h", "}", ";",
      "mk", "(", "1", ")", "(", ")", ";">>,
    <<"let", "mk", "=", "fn", "(", "a", ")", "{", "let", "h", "=", "fn", "(", ")", "{", "a", "+", "b", "}", ";", "let", "b", "=", "1", ";", "h", "}", ";",
      "let", "c", "=", "mk", "(", "1", ")", ";", "let", "d", "=", "mk", "(", "2", ")", ";", "c", "(", ")", "*", "10", "+", "d", "(", ")", ";">>,
    <<"let", "x", "=", "1", ";", "let", "f", "=", "fn", "(", ")", "{", "x", "=", "2", ";", "x", "}", ";", "f", "(", ")", ";", "x", ";">>,
    <<"let", "x", "=", "1", ";", "let", "f", "=", "fn", "(", ")", "{", "let", "x", "=", "2", ";", "x", "}", ";", "f", "(", ")", ";", "x", ";">>,
    <<"let", "x", "=", "1", ";", "let", "f", "=", "fn", "(", ")", "{", "x", "=", "2", ";", "}", ";",
      "let", "g", "=", "fn", "(", ")", "{", "x", "}", ";", "f", "(", ")", ";", "g", "(", ")", ";">>,
    <<"let", "x", "=", "1", ";", "x", "=", "x", "+", "1", ";", "x", ";">>,
    <<"let", "f", "=", "fn", "(", "x", ")", "{", "let", "z", "=", "1", ";", "x", "}", ";", "f", "(", "1", ",", "2", ")", ";", "f", "(", ")", ";", "z", ";">>,
    <<"let", "f", "=", "fn", "(", "x", ",", "x", ")", "{", "x", "}", ";", "f", "(", "1", ",", "2", ")", ";">>,
    <<"let", "f", "=", "fn", "(", "x", ")", "{", "let", "z", "=", "1", ";", "x", "}", ";", "f", "(", ")", ";", "f", "(", "3", ")", ";">>,
    <<"let", "f", "=", "fn", "(", "x", ",", "y", ")", "{", "x", "}", ";", "let", "g", "=", "fn", "(", ")", "{", "f", "(", "1", ")", ";", "7", "}", ";", "g", "(", ")", ";">>,
    <<"1", "+", "true", ";", "5", ";">>,
    <<"let", "x", "=", "1", ";", "y", "=", "2", ";", "x", ";">>,
    <<"5", ";", "if", "(", "true", ")", "{", "1", "+", "true", ";", "let", "k", "=", "3", ";", "q", ";", "k", "}">>,
    <<"let", "f", "=", "fn", "(", ")", "{", "true", "+", "1", ";", "3", ";", "nope", ";", "}", ";", "f", "(", ")", ";">>,
    <<"let", "k", "=", "3", ";", "1", "+", "true", ";",
      "if", "(", "true", ")", "{", "let", "m", "=", "k", ";", "true", "+", "1", ";", "q", ";", "m", "}">>,
    <<"if", "(", "1", ")", "{", "10", "}", ";", "!", "5", ";", "-", "true", ";", "7", ";">>,
    <<"if", "(", "1", ">", "2", ")", "{", "10", "}", "else", "{", "20", "}">>,
    <<"if", "(", "false", ")", "{", "10", "}">>,
    <<"1", "+", "2", "*", "3">>,
    <<"(", "1", "+", "2", ")", "*", "3">>,
    <<"[", "1", ",", "2", ",", "3", "]", "[", "-", "1", "]">>,
    <<"[", "1", ",", "2", ",", "3", "]", "[", "3", "]">>,
    <<"[", "1", ",", "2", "]", "[", "-", "3", "]", ";", "1", ";">>,
    <<"{", "'a'", ":", "10", "-", "9", ",", "}", "[", "'a'", "]">>,
    <<"let", "h", "=", "{", "'a'", ":", "1", ",", "'b'", ":", "2", "}", ";", "h", ".", "b", ";", "h", "[", "'k'", "]", ";">>,
    <<"'a#e'", "[", "1", "]", ";", "'a#e'", "[", "2", "]", ";", "'ab'", "[", "-", "1", "]", ";">>,
    <<"'a'", "+", "'b'", "+", "'ab'", ";", "!", "!", "true", ";", "-", "5", ";">>,
    <<"100", "+", "100", ";", "1", ";">>,
    <<"len", "(", "'ab'", ")", ";", "'ab'", ".", "len", ";", "5", "(", ")", ";">>,
    <<"999">>,
    <<"let", "x", "=", ";">>,
    <<"return", ";">>,
    <<"1", "+">>,
    <<"[", "1", ",", "]">>,
    <<"f", "(", "1", ",", ")">>,
    <<"{", "'a'", ":", "}">>,
    <<"if", "(", "true", ")", "{", "1">>,
    <<"fn", "(", "x", ")", "{", "x", ";">>,
    <<"fn", "+", "1">>,
    <<"[", "1", ",", "2", ";", "3", ";">>,
    <<"1", "+", "2", "*", "3">>,
    <<"(", "1", "+", "2", ")", "*", "3">>,
    <<"(", "a", "+", "b", ")", "*", "c">>,
    <<"let", "h", "=", "{", "'a'", ":", "1", "}", ";", "h", ".", "'a'", ";", "9", ";">>,
    <<"let", "h", "=", "{", "'a'", ":", "1", "}", ";", "h", ".", "1", ";", "9", ";">>,
    <<"let", "h", "=", "{", "'a'", ":", "1", "}", ";", "h", ".", "(", "1", "+", "2", ")", ";", "9", ";">>,
    <<"let", "f", "=", "fn", "(", "a", ")", "{", "y", "=", "a", ";", "}", ";", "f", "(", "1", ")", ";", "y", ";">>,
    <<"let", "x", "=", "1", ";", "let", "y", "=", "2", ";", "x", "=", "y", ";", "y", "=", "5", ";", "x", "+", "y", ";">>,
    <<"let", "x", "=", "1", ";", "if", "(", "true", ")", "{", "x", "=", "3", ";", "z", "=", "4", ";", "}", "x", ";">>,
    <<"let", "x", "=", "1", ";", "let", "f", "=", "fn", "(", ")", "{", "z", "=", "4", ";", "x", "=", "3", ";", "x", "}", ";", "f", "(", ")", ";", "x", ";">>,
    <<"if", "(", "true", ")", "{", "1", "+", "}", "9", ";">>,
    <<"if", "(", "true", ")", "{", "2", ";", "1", "+", "}", "9", ";">>,
    <<"let", "f", "=", "fn", "(", ")", "{", "1", "+", "}", ";", "f", "(", ")", ";">>,
    <<"if", "(", "true", ")", "{", "if", "(", "false", ")", "{", "1", "}", "2", ";", "3", "}", ";", "4", ";">>,
    <<"if", "(", "true", ")", "{", "{", "'a'", ":", "1", "}", ";", "3", "}", ";", "4", ";">>,
    <<"if", "(", "true", ")", "{", "}", ";", "9", ";">>,
    <<"if", "(", "false", ")", "{", "1", "}", "else", "{", "}", ";", "9", ";">>,
    <<"fn", "(", ")", "{", "}", "(", ")", ";", "9", ";">>,
    <<"if", "(", "true", ")", "{", "x", ";", "1", "+", "true", ";", "}", "9", ";">>,
    <<"let", "f", "=", "fn", "(", "a", ")", "{", "x", "}", ";", "f", "(", "1", ")", ";", "9", ";">>,
    <<"'#e'", "[", "1", "]", ";", "9", ";">>,
    <<"if", "(", "true", ")", "{", "'#e'", "[", "1", "]", ";", "5", ";", "}", "9", ";">>,
    <<"let", "f", "=", "fn", "(", ")", "{", "'#e'", "[", "1", "]", ";", "5", "}", ";", "f", "(", ")", ";", "9", ";">>,
    <<"let", "f", "=", "fn", "(", "c", ")", "{", "if", "(", "c", ")", "{", "1", "}", "else", "{", "2", "}", "}", ";",
      "let", "r", "=", "if", "(", "f", "(", "true", ")", "<", "2", ")", "{", "if", "(", "false", ")", "{", "3", "}", "else", "{", "f", "(", "false", ")", "}", "}",
      "else", "{", "4", "}", ";", "r", ";">>,
    <<"let", "k", "=", "'a'", ";", "let", "h", "=", "{", "'a'", ":", "1", ",", "'k'", ":", "2", "}", ";",
      "h", ".", "k", ";", "h", "[", "'k'", "]", ";", "h", "[", "k", "]", ";">>,
    <<"let", "h", "=", "{", "'a'", ":", "1", ",", "'a'", ":", "2", "}", ";",
      "h", "[", "'a'", "]", ";", "h", "[", "'k'", "]", ";", "h", "[", "'a'", "]", ";">>,
    <<"a", "*", "(", "b", "+", "c", ")">>,
    <<"a", ".", "b", "[", "0", "]">>,
    <<"a", "[", "0", "]", ".", "b">>,
    <<"-", "a", ".", "b">>,
    <<"-", "a", "+", "b">>,
    <<"!", "a", "==", "b">>,
    <<"a", "*", "-", "b">>,
    <<"-", "f", "(", "1", ")">>,
    <<"-", "a", "[", "0", "]">>,
    <<"a", "+", "f", "(", "b", ")">>,
    <<"a", "*", "b", "[", "0", "]">>,
    <<"a", "+", "b", ".", "c">>,
    <<"a", ".", "b", "(", ")">>,
    <<"f", "(", ")", "[", "0", "]">>
}

\* The words the generated token sequences are drawn from.
Alphabet == {"let", "x", "=", "1", "+", ";", "(", ")", "{", "return"}

\* Every word sequence over Alphabet of length 1..MaxTokLen.
Sentences == UNION {[1..n -> Alphabet] : n \in 1..MaxTokLen}

RECURSIVE Nest(_, _)
\* d nested if-blocks around `return 10;`, each block closed after `tail`.
Nest(d, tail) ==
    IF d = 0 THEN <<"return", "10", ";">>
    ELSE <<"if", "(", "true", ")", "{">> \o Nest(d - 1, tail) \o tail \o <<"}">>

Tails == {<<>>, <<"return", "1", ";">>, <<"let", "m", "=", "1", ";">>}

\* Nested if-blocks with a return innermost: as a program, and as the body of
\* a function whose call is followed by further statements.
Nested ==
    UNION {{Nest(d, t) \o <<"let", "z", "=", "2", ";">>,
            <<"let", "f", "=", "fn", "(", ")", "{">> \o Nest(d, t)
                \o <<"3", "}", ";", "let", "r", "=", "f", "(", ")", ";", "r", ";">>}
           : d \in 1..MaxDepth, t \in Tails}

\* A function that calls itself k times, called at top level.
Recursive ==
    {<<"let", "f", "=", "fn", "(", "n", ")", "{", "if", "(", "n", "<", "1", ")", "{", "0", "}",
       "else", "{", "f", "(", "n", "-", "1", ")", "+", "n", "}", "}", ";",
       "f", "(", k, ")", ";">> : k \in {"0", "1"}}

\* The binary operators of parse_expression's first infix arm.
Operators == {"+", "-", "*", "/", "<", ">", "==", "!="}

Operand(i) == <<"a", "b", "c", "d", "e">>[i]

\* The expression `a op1 b op2 c ..` with the operators ops, no parentheses.
Flat(ops) ==
    [i \in 1..(2 * Len(ops) + 1) |->
        IF i % 2 = 1 THEN Operand((i + 1) \div 2) ELSE ops[i \div 2]]

\* Every such expression with 1..MaxOps operators.
Flats == {Flat(ops) : ops \in UNION {[1..n -> Operators] : n \in 1..MaxOps}}

\* The array literal `[10, 20, ..]` of n elements.
ArrayWords(n) ==
    <<"[">> \o [k \in 1..(2 * n - 1) |->
                  IF k % 2 = 1 THEN <<"10", "20", "100", "127">>[(k + 1) \div 2]
                  ELSE ","]
           \o <<"]">>

\* The index i as source text: a literal, negated when i < 0.
IndexWords(i) ==
    IF i < 0 THEN <<"-", <<"0", "1", "2", "3", "4", "5">>[1 - i]>>
    ELSE <<<<"0", "1", "2", "3", "4", "5">>[i + 1]>>

IndexRange == (-(MaxArrLen + 1))..(MaxArrLen + 1)

\* Every generated array and every string literal, indexed at every index.
Indexings ==
    {ArrayWords(n) \o <<"[">> \o IndexWords(i) \o <<"]">> :
        n \in 0..MaxArrLen, i \in IndexRange}
    \cup {<<w, "[">> \o IndexWords(i) \o <<"]">> : w \in Strings, i \in IndexRange}

\* The source text of the value of the j-th pair of a generated hash.
PairValueWords(j) == <<<<"10", "-", "9">>, <<"20">>, <<"100">>, <<"127">>>>[j]

RECURSIVE PairWords(_, _)
\* The pairs `k: v, ..` of a generated hash with the keys ks, from pair j on.
PairWords(ks, j) ==
    IF j > Len(ks) THEN <<>>
    ELSE (IF j = 1 THEN <<>> ELSE <<",">>) \o <<ks[j], ":">>
            \o PairValueWords(j) \o PairWords(ks, j + 1)

\* The keys of the generated hash literals, and the keys looked up: each as
\* an identifier and as the string literal of the same characters.
HashKeys == {"'a'", "'b'"}

LookupKeys == {<<"a", "'a'">>, <<"b", "'b'">>, <<"k", "'k'">>}

\* The keys of a generated hash: up to MaxArrLen pairs, repeated keys
\* included.
KeyLists == UNION {[1..n -> HashKeys] : n \in 0..MaxArrLen}

\* `{k: v, ..}[key]`
HashLookupWords(ks, key) ==
    <<"{">> \o PairWords(ks, 1) \o <<"}", "[", key[2], "]">>

\* `let h = {k: v, ..}; h.key; h["key"];`
HashDotWords(ks, key) ==
    <<"let", "h", "=", "{">> \o PairWords(ks, 1)
        \o <<"}", ";", "h", ".", key[1], ";", "h", "[", key[2], "]", ";">>

\* Every generated hash looked up at every key, by index and by dot.
HashLookups ==
    {HashLookupWords(ks, key) : ks \in KeyLists, key \in LookupKeys}
    \cup {HashDotWords(ks, key) : ks \in KeyLists, key \in LookupKeys}

\* Conditions of every kind of value: Boolean, Integer, String, Array, Error.
Conditions ==
    {<<"true">>, <<"false">>, <<"1", "<", "2">>, <<"2", "<", "1">>, <<"!", "true">>,
     <<"1">>, <<"0">>, <<"'a'">>, <<"[", "]">>, <<"x">>}

\* `if (c) { let a = 1; 10 }`, with `else { let b = 2; 20 }` or without, and
\* a statement after it.
IfWords(c, else) ==
    <<"if", "(">> \o c \o <<")", "{", "let", "a", "=", "1", ";", "10", "}">>
        \o (IF else THEN <<"else", "{", "let", "b", "=", "2", ";", "20", "}">>
            ELSE <<>>)
        \o <<";", "9", ";">>

Conditionals == {IfWords(c, else) : c \in Conditions, else \in BOOLEAN}

\* Operands of every kind of value: Integer, Boolean, String, Array, Hash,
\* Function, BuiltinFunction, Null (`[][0]`) and Error (an unbound name).
Atoms ==
    {<<"1">>, <<"true">>, <<"false">>, <<"'a'">>, <<"'b'">>, <<"[", "]">>,
     <<"{", "}">>, <<"fn", "(", ")", "{", "}">>, <<"len">>,
     <<"[", "]", "[", "0", "]">>, <<"x">>}

\* `(l op r)` for every pair of operands and every infix operator token.
Pairings ==
    {<<"(">> \o l \o <<op>> \o r \o <<")">> :
        l \in Atoms, r \in Atoms, op \in Operators \cup {"="}}

\* `op r` and `op op r` for the two prefix operators.
Prefixes ==
    {<<op>> \o r : op \in {"!", "-"}, r \in Atoms \cup {<<w>> : w \in Numbers}}
    \cup {<<op1, op2>> \o r : op1 \in {"!", "-"}, op2 \in {"!", "-"}, r \in Atoms}

\* Statements of every kind, written without their terminator; the last
\* three start with a token that binds as an infix operator.
Statements ==
    {<<"let", "a", "=", "1">>,
     <<"return", "a", "+", "1">>,
     <<"a", "=", "2">>,
     <<"a">>,
     <<"1", "+", "2", "*", "3">>,
     <<"!", "true">>,
     <<"'a'">>,
     <<"true">>,
     <<"if", "(", "true", ")", "{", "1", ";", "a", ";", "}", "else", "{", "2", ";", "}">>,
     <<"fn", "(", "x", ")", "{", "let", "y", "=", "x", ";", "y", ";", "}">>,
     <<"{", "'a'", ":", "1", "}">>,
     <<"f", "(", "1", ")", "[", "0", "]">>,
     <<"(", "a", ")">>,
     <<"[", "1", "]">>,
     <<"-", "1">>}

RECURSIVE Terminated(_)
\* The statements ss in a row, a `;` after each.
Terminated(ss) ==
    IF ss = <<>> THEN <<>> ELSE Head(ss) \o <<";">> \o Terminated(Tail(ss))

\* Every sequence of 1..MaxStmts statements, each terminated.
Sequences ==
    {Terminated(ss) : ss \in UNION {[1..n -> Statements] : n \in 1..MaxStmts}}

\* Integer operands: small ones of either sign, the greatest and the least
\* of eight bits.
IntAtoms ==
    {<<"0">>, <<"1">>, <<"2">>, <<"9">>, <<"127">>, <<"-", "1">>, <<"-", "9">>,
     <<"(", "-", "127", "-", "1", ")">>}

\* `(a op b)` for every pair of Integer operands and every Integer operator,
\* and the negation of every operand.
Arithmetic ==
    {<<"(">> \o a \o <<op>> \o b \o <<")">> :
        a \in IntAtoms, b \in IntAtoms, op \in Operators}
    \cup {<<"-", "(">> \o a \o <<")">> : a \in IntAtoms}

\* One statement each, its list construct (call arguments, array elements,
\* function parameters) lacking the closing delimiter.
Unclosed == {
    <<"f", "(", "1", ",", "2", ";">>,
    <<"f", "(", "1">>,
    <<"[", "1", ",", "2", ";">>,
    <<"[", "1">>,
    <<"fn", "(", "a", ",", "b", "{", "a", "}">>,
    <<"fn", "(", "a", "{", "a", "}", ";">>,
    <<"let", "g", "=", "fn", "(", "a", "{", "a", "}", ";">>,
    <<"let", "v", "=", "[", "1", ",", "2", ";">>
}

\* The words of pair j of a generated hash literal, with or without its `:`.
LiteralPair(j, colon) ==
    IF colon THEN <<<<"a", "b">>[j], ":", <<"1", "2">>[j]>>
    ELSE <<<<"a", "b">>[j], <<"1", "2">>[j]>>

\* `{a: 1, b: 2}` cut to n pairs, pair c written without its `:` (none for
\* c = 0), with or without the `,` between two pairs and a trailing `,`.
LiteralWords(n, c, comma, trailing) ==
    <<"{">>
        \o (IF n >= 1 THEN LiteralPair(1, c # 1) ELSE <<>>)
        \o (IF n = 2 /\ comma THEN <<",">> ELSE <<>>)
        \o (IF n = 2 THEN LiteralPair(2, c # 2) ELSE <<>>)
        \o (IF trailing THEN <<",">> ELSE <<>>)
        \o <<"}", ";">>

\* The shapes of the generated hash literals.
LiteralShapes ==
    {s \in [n : 0..2, c : 0..2, comma : BOOLEAN, trailing : BOOLEAN] :
        /\ s.c <= s.n
        /\ s.n = 0 => ~s.trailing
        /\ s.n < 2 => s.comma}

HashLiterals ==
    {LiteralWords(s.n, s.c, s.comma, s.trailing) : s \in LiteralShapes}

Sources ==
    Programs \cup Sentences \cup Nested \cup Recursive \cup Flats \cup Indexings
        \cup HashLookups \cup Conditionals \cup Pairings \cup Prefixes
        \cup Sequences \cup Arithmetic \cup Unclosed \cup HashLiterals

----------------------------------------------------------------------------
(* The state machine: Parser::new + Evaluator::new, then parse_program's     *)
(* loop, then eval's loop over the parsed Program.                          *)

Init ==
    /\ \E ws \in Sources : parser = ParserNew(Lex(ws))
    /\ program = <<>>
    /\ phase = "parse"
    /\ ev = EvaluatorNew
    /\ result = None
    /\ pos = 0
    /\ build \in {"debug", "release"}

\* One turn of parse_program's `while current_token != Eof` loop.
ParseStep ==
    /\ phase = "parse"
    /\ parser.current_token.ttype # "Eof"
    /\ LET turn == parse_program_turn(parser, program)
       IN  /\ parser' = turn.parser
           /\ program' = turn.program
           /\ phase' = IF turn.parser.panicked THEN "panic" ELSE "parse"
    /\ UNCHANGED <<ev, result, pos, build>>

\* parse_program leaves its loop and returns Some(program); eval is entered.
ParseDone ==
    /\ phase = "parse"
    /\ parser.current_token.ttype = "Eof"
    /\ phase' = "eval"
    /\ UNCHANGED <<parser, program, ev, result, pos, build>>

\* Variant of EvalMatch: a Return wrapper is taken as an ordinary value.
EvalMatchReturnAsValue(r) ==
    IF r.s.panicked
    THEN [phase |-> "panic", result |-> result, ev |-> r.s]
    ELSE IF r.v = None
    THEN [phase |-> "failed",
          result |-> new_error("Could not evaluate statement"), ev |-> r.s]
    ELSE IF r.v.kind = "Error"
    THEN [phase |-> "eval", result |-> result,
          ev |-> [r.s EXCEPT !.out = Append(@, r.v.msg)]]
    ELSE [phase |-> "eval", result |-> r.v, ev |-> r.s]

\* What eval's `match` does with one statement's Option<Object>.
EvalMatch(r) ==
    IF r.s.panicked
    THEN [phase |-> "panic", result |-> result, ev |-> r.s]
    ELSE IF r.v = None
    THEN [phase |-> "failed",
          result |-> new_error("Could not evaluate statement"), ev |-> r.s]
    ELSE IF r.v.kind = "Return"
    THEN [phase |-> "returned", result |-> r.v.value, ev |-> r.s]
    ELSE IF r.v.kind = "Error"
    THEN [phase |-> "eval", result |-> result,
          ev |-> [r.s EXCEPT !.out = Append(@, r.v.msg)]]
    ELSE [phase |-> "eval", result |-> r.v, ev |-> r.s]

\* One turn of eval's `for stmt in program` loop.
EvalStep ==
    /\ phase = "eval"
    /\ pos < Len(program)
    /\ LET m == EvalMatch(StatementTurn(ev, program, pos + 1))
       IN  /\ ev' = m.ev
           /\ result' = m.result
           /\ phase' = m.phase
    /\ pos' = pos + 1
    /\ UNCHANGED <<parser, program, build>>

\* eval leaves its loop and returns `result`.
EvalDone ==
    /\ phase = "eval"
    /\ pos = Len(program)
    /\ phase' = "done"
    /\ UNCHANGED <<parser, program, ev, result, pos, build>>

Next == ParseStep \/ ParseDone \/ EvalStep \/ EvalDone

Spec == Init /\ [][Next]_vars

----------------------------------------------------------------------------
(* Properties of the parser and the evaluator.  The evaluator's properties   *)
(* are read off its event log: "begin"/"done" around every statement,        *)
(* "exit" of every block, "apply"/"enter"/"applied" around every call of a   *)
(* Function, "set" and "get" for every binding write and identifier lookup,  *)
(* "closure" for every function literal, "return" for every Return wrapper,  *)
(* "block" for every block entered, and "if", "index", "dot", "infix" and    *)
(* "prefix" with the operands and the outcome of each such expression.       *)

Log == ev.log

\* The positions of the log's events of one kind.
At(kind) == {i \in DOMAIN ev.log : ev.log[i].ev = kind}

Range(xs) == {xs[i] : i \in DOMAIN xs}

IsPrefix(p, q) == Len(p) <= Len(q) /\ SubSeq(q, 1, Len(p)) = p

\* The "done" events of the top-level program's statements.
TopDone == {i \in At("done") : Log[i].depth = 0 /\ Log[i].blk = <<>>}

\* C1: parsing is total and never panics: whatever the token sequence (two
\* tokens or more, the last one Eof), well formed or not, parse_program never
\* unwraps an absent expression and never reads past the last token.
C1_ParsingNeverPanics == ~parser.panicked

\* C2: the value of a function-call expression is never a Return wrapper: every
\* call of a Function hands back an unwrapped value, so a `return` in the
\* callee ends that call only.
C2_CallValueNeverReturnWrapper ==
    \A j \in At("applied") : Log[j].value.kind # "Return"

\* C3: top-level return short-circuit: when a top-level statement evaluates to
\* a Return wrapper, eval stops there: that statement's "done" is the last
\* event there ever is (no later statement is begun, no binding written), and
\* the result is the unwrapped payload, whatever the other statements are.
C3_TopLevelReturnShortCircuit ==
    \A i \in TopDone :
        Log[i].value.kind = "Return" =>
            /\ i = Len(Log)
            /\ phase = "returned"
            /\ pos = Log[i].i
            /\ result = Log[i].value.value

\* C3's case: a return between two other top-level statements, the later one a
\* `let` whose binding does not exist at the end.
C3_ReturnBetweenStatements ==
    /\ phase = "returned"
    /\ 1 < pos /\ pos < Len(program)
    /\ result = Integer(10)
    /\ program[pos + 1].kind = "Let"
    /\ EnvGet(ev.envs, 1, program[pos + 1].name) = None

\* The first `return` statement evaluated at top level (call depth 0).
FirstTopReturn ==
    CHOOSE i \in At("return") :
        Log[i].depth = 0 /\ \A k \in At("return") : Log[k].depth = 0 => i <= k

\* C4: return propagates through nested blocks, whatever their depth: once a
\* `return e` is evaluated inside a block, no later statement of that block or
\* of a block enclosing it in the same function body (or of the top-level
\* program) is begun, and a program that evaluated a `return e` outside every
\* call ends with the value of e as its result.
C4_ReturnEndsEnclosingBlocks ==
    /\ \A i \in At("return") : \A j \in At("begin") :
          ~(i < j /\ Log[j].depth = Log[i].depth
                  /\ IsPrefix(Log[j].blk, Log[i].blk))
    /\ (phase \in {"done", "returned", "failed"}
            /\ \E i \in At("return") : Log[i].depth = 0)
          => (phase = "returned" /\ result = Log[FirstTopReturn].value)

\* The "apply" event that the "applied" event at j answers: the last one
\* before j at the same call depth.
ApplyOf(j) ==
    CHOOSE i \in At("apply") :
        /\ i < j /\ Log[i].depth = Log[j].depth
        /\ \A k \in At("apply") : (k < j /\ Log[k].depth = Log[j].depth) => k <= i

\* C5: the active-environment slot is restored around every call of a
\* Function: when the call has returned (whatever its body produced, at any
\* depth of nesting) the active frame is the one that was active when the call
\* began; and between top-level statements the active frame is the root.
C5_ActiveEnvironmentRestored ==
    /\ \A j \in At("applied") : Log[j].env = Log[ApplyOf(j)].env
    /\ phase # "panic" => ev.env = 1

\* C5's case: a call made from inside another call has returned, its body
\* having produced a Return wrapper, and the caller's frame is active again.
C5_NestedCallReturned ==
    \E j \in At("applied") :
        /\ Log[j].entered /\ Log[j].depth >= 1 /\ Log[j].env # 1
        /\ Log[j].value.kind = "Return"

RECURSIVE Chain(_, _)
\* The frames on the outer-chain that starts at frame a.
Chain(heap, a) == IF a = 0 THEN {} ELSE {a} \cup Chain(heap, heap[a].outer)

\* The last position of xs that holds x.
LastAt(xs, x) ==
    CHOOSE i \in DOMAIN xs : xs[i] = x /\ \A k \in DOMAIN xs : xs[k] = x => k <= i

\* The frame that was active where the call running at "get" event g was made.
CallerOf(g) ==
    Log[CHOOSE i \in At("apply") :
            /\ i < g /\ Log[i].depth = Log[g].depth - 1
            /\ \A k \in At("apply") :
                  (k < g /\ Log[k].depth = Log[g].depth - 1) => k <= i].env

\* The lookup at "get" event g finds the name bound only in the caller's own
\* frame, which is not on the chain of the callee's frame.
BoundInCallerOnly(g) ==
    /\ Log[g].depth >= 1
    /\ Log[g].name \in DOMAIN Log[g].envs[CallerOf(g)].store
    /\ \A a \in Chain(Log[g].envs, Log[g].env) :
          Log[g].name \notin DOMAIN Log[g].envs[a].store

IsCallFrame(a) == \E e \in At("enter") : Log[e].env = a

\* The "enter" event that made frame a the active one.
EnterOf(a) == CHOOSE e \in At("enter") : Log[e].env = a

\* The Function whose call runs in frame a.
CalledIn(a) == Log[EnterOf(a) - 1].function

\* The positions before g of the writes of name through the handle of frame a.
SetsOf(a, name, g) ==
    {k \in At("set") : k < g /\ Log[k].env = a /\ Log[k].name = name}

\* The last of them, 0 when there is none.
LastSet(a, name, g) ==
    IF SetsOf(a, name, g) = {} THEN 0
    ELSE CHOOSE k \in SetsOf(a, name, g) : \A m \in SetsOf(a, name, g) : m <= k

\* The lookup at g is made by a call of the Function created at "closure"
\* event c, for a name the call's own frame does not bind and that was bound
\* in the frame active at c only after c.
ReadsLaterLet(g, c) ==
    /\ IsCallFrame(Log[g].env)
    /\ c < EnterOf(Log[g].env)
    /\ CalledIn(Log[g].env) = Log[c].function
    /\ Log[g].name \notin DOMAIN Log[g].envs[Log[g].env].store
    /\ LastSet(Log[c].env, Log[g].name, g) > c

\* The lookup at g is made by a call of a Function that captured the frame of
\* a call which has returned since, for a parameter of that call which neither
\* frame has rebound.
ReadsEndedCallParameter(g) ==
    /\ IsCallFrame(Log[g].env)
    /\ IsCallFrame(CalledIn(Log[g].env).env)
    /\ \E k \in At("applied") :
          /\ EnterOf(CalledIn(Log[g].env).env) < k /\ k < g
          /\ Log[k].depth = Log[EnterOf(CalledIn(Log[g].env).env)].depth - 1
    /\ Log[g].name \in DOMAIN Log[EnterOf(CalledIn(Log[g].env).env)].frame.store
    /\ Log[g].name \notin DOMAIN Log[g].envs[Log[g].env].store
    /\ LastSet(CalledIn(Log[g].env).env, Log[g].name, g) = 0

\* C7: closures capture the defining environment by reference: a Function
\* holds the handle of the frame active where it was created, so its calls
\* read a `let x = v` evaluated in that frame after the creation; a closure
\* created in a call still reads that call's parameters after the call has
\* returned; and every call has a frame of its own.
C7_CaptureByReference ==
    /\ \A c \in At("closure") : Log[c].function.env = Log[c].env
    /\ \A g \in At("get") : \A c \in At("closure") :
          ReadsLaterLet(g, c) =>
              Log[g].value = Log[LastSet(Log[c].env, Log[g].name, g)].value
    /\ \A g \in At("get") :
          ReadsEndedCallParameter(g) =>
              Log[g].value =
                  Log[EnterOf(CalledIn(Log[g].env).env)].frame.store[Log[g].name]
    /\ \A e1 \in At("enter") : \A e2 \in At("enter") :
          e1 # e2 => Log[e1].env # Log[e2].env

\* C7's case: a closure created inside a call reads a name let-bound in that
\* call's frame after its creation and a parameter of that call, the call
\* having returned; and the same function literal has produced two closures
\* over different frames.
C7_ClosureOutlivesCall ==
    /\ \E g \in At("get") : \E c \in At("closure") :
          ReadsLaterLet(g, c) /\ Log[c].env # 1
    /\ \E g \in At("get") : ReadsEndedCallParameter(g)
    /\ \E c1 \in At("closure") : \E c2 \in At("closure") :
          /\ Log[c1].function.body = Log[c2].function.body
          /\ Log[c1].env # Log[c2].env

\* C8: writes are always local to the active frame: a `let` or a reassignment
\* creates or overwrites the binding in the active frame's own store and
\* changes nothing else, no other frame in particular; so a lookup made later
\* from a chain that the written frame is not on reads what it read before.
C8_WritesAreLocal ==
    /\ \A s \in At("set") :
          /\ DOMAIN Log[s].after = DOMAIN Log[s].before
          /\ \A a \in DOMAIN Log[s].before :
                a # Log[s].env => Log[s].after[a] = Log[s].before[a]
          /\ Log[s].after[Log[s].env].outer = Log[s].before[Log[s].env].outer
          /\ DOMAIN Log[s].after[Log[s].env].store
                = DOMAIN Log[s].before[Log[s].env].store \cup {Log[s].name}
          /\ \A n \in DOMAIN Log[s].after[Log[s].env].store :
                Log[s].after[Log[s].env].store[n]
                    = IF n = Log[s].name THEN Log[s].value
                      ELSE Log[s].before[Log[s].env].store[n]
    /\ \A s \in At("set") : \A g \in At("get") :
          (/\ s < g /\ Log[g].name = Log[s].name
           /\ Log[g].env \in DOMAIN Log[s].before
           /\ \A a \in Chain(Log[g].envs, Log[g].env) :
                 \A k \in SetsOf(a, Log[g].name, g) : k < s)
              => Log[g].value = EnvGet(Log[s].before, Log[g].env, Log[g].name)

\* C8's case: inside a call a name bound only in an ancestor frame is written,
\* and after the call the enclosing scope reads the name: the old value.
C8_AncestorBindingShadowed ==
    \E s \in At("set") : \E g \in At("get") :
        /\ Log[s].depth >= 1
        /\ Log[s].name \notin DOMAIN Log[s].before[Log[s].env].store
        /\ EnvGet(Log[s].before, Log[s].env, Log[s].name) # None
        /\ s < g /\ Log[g].name = Log[s].name /\ Log[g].depth = 0
        /\ Log[g].value # Log[s].value
        /\ Log[g].value = EnvGet(Log[s].before, Log[s].env, Log[s].name)

\* C9: an arity mismatch is an Error value, not a crash: a Function applied to
\* more or fewer arguments than it has parameters hands back an Error at once:
\* no frame is entered, no statement of the body is begun, and the active
\* frame and every frame's bindings are as they were.
C9_ArityMismatchIsError ==
    \A a \in At("apply") :
        Len(Log[a].arguments) # Len(Log[a].function.parameters) =>
            /\ a + 1 \in At("applied")
            /\ ~Log[a + 1].entered
            /\ Log[a + 1].value.kind = "Error"
            /\ Log[a + 1].depth = Log[a].depth
            /\ Log[a + 1].env = Log[a].env
            /\ Log[a + 1].envs = Log[a].envs

\* C9's case: one function has been called with too many arguments and with
\* too few.
C9_TooManyAndTooFew ==
    \E a \in At("apply") : \E b \in At("apply") :
        /\ Log[a].function = Log[b].function
        /\ Len(Log[a].arguments) > Len(Log[a].function.parameters)
        /\ Len(Log[b].arguments) < Len(Log[b].function.parameters)
        /\ Log[a + 1].value.kind = "Error" /\ Log[b + 1].value.kind = "Error"

\* The statements among the "done" events D whose value is not an Error.
Values(D) == {d \in D : Log[d].value.kind # "Error"}

\* What a statement sequence that ran to its end hands back, D being its
\* "done" events: the value of the last statement that was not an Error.
LastValue(D) ==
    IF Values(D) = {} THEN None
    ELSE Log[CHOOSE d \in Values(D) : \A k \in Values(D) : k <= d].value

\* The "done" events before x of the statements of block blk.
DoneIn(blk, x) == {d \in At("done") : d < x /\ Log[d].blk = blk}

\* C10: an Error at statement granularity is not fatal, in the top-level
\* program and in a block alike: the statement after it is begun next, with
\* nothing in between (no binding is touched), and the sequence's result is
\* the value of its last statement that was not an Error.
C10_ErrorIsNotFatal ==
    /\ \A d \in At("done") :
          Log[d].value.kind = "Error" =>
              IF d = Len(Log)
              THEN d \in TopDone /\ phase \in {"eval", "done"} /\ pos = Log[d].i
              ELSE IF Log[d].i < Log[d].n
              THEN Log[d + 1] = [ev |-> "begin", depth |-> Log[d].depth,
                                 blk |-> Log[d].blk, i |-> Log[d].i + 1,
                                 n |-> Log[d].n]
              ELSE Log[d + 1].ev = "exit" /\ Log[d + 1].blk = Log[d].blk
    /\ \A x \in At("exit") :
          (\A d \in DoneIn(Log[x].blk, x) :
                Log[d].value.kind \notin {"Return", "None"})
              => Log[x].value = LastValue(DoneIn(Log[x].blk, x))
    /\ phase \in {"eval", "done"} => result = LastValue(TopDone)

\* C10's case: an Error among the top-level statements and two inside a block,
\* each followed by further statements; a binding made before them is read
\* after them and decides the result.
C10_ErrorsThenValue ==
    /\ \E d \in TopDone : Log[d].value.kind = "Error" /\ Log[d].i < Log[d].n
    /\ \E d \in At("done") :
          /\ Log[d].blk # <<>> /\ Log[d].value.kind = "Error"
          /\ Log[d].i < Log[d].n
          /\ \E s \in At("set") : \E g \in At("get") :
                /\ s < d /\ d < g /\ Log[s].env = Log[g].env
                /\ Log[s].name = Log[g].name /\ Log[g].value = Log[s].value
    /\ phase = "done" /\ result = Integer(3)

----------------------------------------------------------------------------
(* Operator grouping.                                                       *)

\* An expression written out fully parenthesised, one group per node.
RECURSIVE Show(_)
RECURSIVE ShowAll(_)
Show(e) ==
    CASE e.kind = "Infix" ->
            <<"(">> \o Show(e.left) \o e.operator \o Show(e.right) \o <<")">>
      [] e.kind = "Prefix" -> <<"(">> \o e.operator \o Show(e.right) \o <<")">>
      [] e.kind = "DotNotation" ->
            <<"(">> \o Show(e.left) \o <<".">> \o Show(e.right) \o <<")">>
      [] e.kind = "IndexExpression" ->
            <<"(">> \o Show(e.left) \o <<"[">> \o Show(e.index) \o <<"]", ")">>
      [] e.kind = "FunctionCall" ->
            <<"(">> \o Show(e.function) \o <<"{">> \o ShowAll(e.arguments)
                \o <<"}", ")">>
      [] e.kind = "Identifier" -> e.value
      [] e.kind = "IntegerLit" -> <<ToString(e.value)>>
      [] OTHER -> <<e.kind>>

ShowAll(es) ==
    IF es = <<>> THEN <<>> ELSE Show(Head(es)) \o <<",">> \o ShowAll(Tail(es))

\* The program parsed, when it is one expression statement.
Shown ==
    IF Len(program) = 1 /\ program[1].kind = "Expression"
    THEN Show(program[1].value) ELSE <<"?">>

\* The rung of a binary operator token on the ladder.
Rank(tok) ==
    CASE tok.ttype \in {"Eq", "NotEq"} -> Equals
      [] tok.ttype \in {"Lt", "Gt"} -> LessGreater
      [] tok.ttype \in {"Add", "Sub"} -> Sum
      [] tok.ttype \in {"Mul", "Div"} -> Product

\* The positions of the operators of a flat chain of tokens.
OperatorsAt(toks) == {k \in 1..Len(toks) : k % 2 = 0}

\* Where a flat chain splits: at its last operator of the lowest rung.
SplitAt(toks) ==
    CHOOSE k \in OperatorsAt(toks) :
        \A j \in OperatorsAt(toks) :
            \/ Rank(toks[j]) > Rank(toks[k])
            \/ Rank(toks[j]) = Rank(toks[k]) /\ j <= k

\* The grouping of a flat chain by the ladder, equal rungs grouped leftwards.
RECURSIVE Grouped(_)
Grouped(toks) ==
    IF Len(toks) = 1 THEN toks[1].literal
    ELSE <<"(">> \o Grouped(SubSeq(toks, 1, SplitAt(toks) - 1))
              \o toks[SplitAt(toks)].literal
              \o Grouped(SubSeq(toks, SplitAt(toks) + 1, Len(toks))) \o <<")">>

\* The token sequences of the generated operator chains.
FlatTokens == {Lex(ws) : ws \in Flats}

\* A token sequence without its Eof.
BeforeEof(toks) == SubSeq(toks, 1, Len(toks) - 1)

\* Expressions with prefix, call, index and dot operators or a parenthesised
\* group, each with its grouping by the ladder.
GroupingWords == {
    <<<<"(", "a", "+", "b", ")", "*", "c">>,
      <<"(", "(", "a", "+", "b", ")", "*", "c", ")">>>>,
    <<<<"a", "*", "(", "b", "+", "c", ")">>,
      <<"(", "a", "*", "(", "b", "+", "c", ")", ")">>>>,
    <<<<"a", ".", "b", "[", "0", "]">>,
      <<"(", "(", "a", ".", "b", ")", "[", "0", "]", ")">>>>,
    <<<<"a", "[", "0", "]", ".", "b">>,
      <<"(", "(", "a", "[", "0", "]", ")", ".", "b", ")">>>>,
    <<<<"-", "a", ".", "b">>, <<"(", "-", "(", "a", ".", "b", ")", ")">>>>,
    <<<<"-", "a", "+", "b">>, <<"(", "(", "-", "a", ")", "+", "b", ")">>>>,
    <<<<"!", "a", "==", "b">>, <<"(", "(", "!", "a", ")", "=", "=", "b", ")">>>>,
    <<<<"a", "*", "-", "b">>, <<"(", "a", "*", "(", "-", "b", ")", ")">>>>,
    <<<<"-", "f", "(", "1", ")">>,
      <<"(", "-", "(", "f", "{", "1", ",", "}", ")", ")">>>>,
    <<<<"-", "a", "[", "0", "]">>,
      <<"(", "-", "(", "a", "[", "0", "]", ")", ")">>>>,
    <<<<"a", "+", "f", "(", "b", ")">>,
      <<"(", "a", "+", "(", "f", "{", "b", ",", "}", ")", ")">>>>,
    <<<<"a", "*", "b", "[", "0", "]">>,
      <<"(", "a", "*", "(", "b", "[", "0", "]", ")", ")">>>>,
    <<<<"a", "+", "b", ".", "c">>,
      <<"(", "a", "+", "(", "b", ".", "c", ")", ")">>>>,
    <<<<"a", ".", "b", "(", ")">>,
      <<"(", "(", "a", ".", "b", ")", "{", "}", ")">>>>,
    <<<<"f", "(", ")", "[", "0", "]">>,
      <<"(", "(", "f", "{", "}", ")", "[", "0", "]", ")">>>>,
    <<<<"1", "+", "2", "*", "3">>,
      <<"(", "1", "+", "(", "2", "*", "3", ")", ")">>>>,
    <<<<"(", "1", "+", "2", ")", "*", "3">>,
      <<"(", "(", "1", "+", "2", ")", "*", "3", ")">>>>
}

\* The same, as token sequences.
Groupings == {<<Lex(g[1]), g[2]>> : g \in GroupingWords}

\* C11: once parsing is over, a chain of binary operators without parentheses
\* is grouped by the ladder with equal rungs grouped to the left (so
\* `a + b * c` is `a + (b * c)`, `a - b - c` is `(a - b) - c`, `a < b == c` is
\* `(a < b) == c`); a parenthesised group stays one operand; prefix, call,
\* index and dot bind in that rising order (`a.b[0]` is `(a.b)[0]`, `-a.b` is
\* `-(a.b)`); and `1 + 2 * 3` evaluates to 7, `(1 + 2) * 3` to 9.
C11_GroupingFollowsLadder ==
    (phase # "parse" /\ ~parser.panicked) =>
        /\ parser.tokens \in FlatTokens =>
              Shown = Grouped(BeforeEof(parser.tokens))
        /\ \A g \in Groupings : parser.tokens = g[1] => Shown = g[2]
        /\ (phase = "done" /\ parser.tokens = Lex(<<"1", "+", "2", "*", "3">>))
              => result = Integer(7)
        /\ (phase = "done"
              /\ parser.tokens = Lex(<<"(", "1", "+", "2", ")", "*", "3">>))
              => result = Integer(9)

\* `a - b - c` has been parsed as `(a - b) - c`.
C11_EqualRungParsed ==
    /\ phase # "parse"
    /\ parser.tokens = Lex(<<"a", "-", "b", "-", "c">>)
    /\ Shown = <<"(", "(", "a", "-", "b", ")", "-", "c", ")">>

----------------------------------------------------------------------------
(* Indexing.                                                                *)

\* The "index" events of an Integer index into a value of the given kind.
IndexingsOf(kind) ==
    {k \in At("index") : Log[k].left.kind = kind /\ Log[k].index.kind = "Integer"}

\* C12: indexing an array of n elements with an Integer i yields element i
\* when 0 <= i < n, element n + i when -n <= i <= -1, and Null when i >= n
\* (so always Null from i = 0 on for the empty array).
C12_ArrayIndexing ==
    \A k \in IndexingsOf("Array") :
        LET arr == Log[k].left.elements
            n == Len(arr)
            i == Log[k].index.value
        IN  /\ (0 <= i /\ i < n) => (~Log[k].crashed /\ Log[k].value = arr[i + 1])
            /\ (-n <= i /\ i <= -1) =>
                    (~Log[k].crashed /\ Log[k].value = arr[n + i + 1])
            /\ i >= n => (~Log[k].crashed /\ Log[k].value = Null)

\* An array of two elements has been indexed at -2, giving its first element.
C12_IndexedFromTheEnd ==
    \E k \in IndexingsOf("Array") :
        /\ Len(Log[k].left.elements) = 2
        /\ Log[k].index.value = -2
        /\ Log[k].value = Log[k].left.elements[1]

\* The positions in a hash's pairs whose key is the String key.
KeyedAt(pairs, key) == {j \in 1..Len(pairs) : pairs[j][1] = String(key)}

Least(S) == CHOOSE j \in S : \A m \in S : j <= m

\* What the lookup of key in pairs is to yield: the value of the first pair
\* with that key, Null when there is none.
FirstValue(pairs, key) ==
    IF KeyedAt(pairs, key) = {} THEN Null
    ELSE pairs[Least(KeyedAt(pairs, key))][2]

\* The values the pairs of a generated hash literal evaluate to.
PairValue(j) == <<Integer(1), Integer(20), Integer(100), Integer(127)>>[j]

\* The Hash the generated literal with the keys ks evaluates to.
HashOfKeys(ks) ==
    Hash([j \in 1..Len(ks) |-> <<String(Chars(ks[j])), PairValue(j)>>])

\* The generated lookups `{k: v, ..}[key]`: their tokens, the Hash the literal
\* is to evaluate to and the characters of the key.
HashLookupCases ==
    {[tokens |-> Lex(HashLookupWords(ks, key)), hash |-> HashOfKeys(ks),
      key |-> Chars(key[2])] : ks \in KeyLists, key \in LookupKeys}

\* C13: indexing a Hash with a String yields the value of the first pair
\* whose key equals it and Null when no pair has it, without a crash and
\* leaving every environment (and so every stored hash) as it was; a hash
\* literal indexed on the spot yields the evaluated value of the first pair
\* with the key, as `{"a": 10 - 9}["a"]` yields 1.
C13_HashLookupRoundTrip ==
    /\ \A k \in At("index") :
          (Log[k].left.kind = "Hash" /\ Log[k].index.kind = "String") =>
              /\ ~Log[k].crashed
              /\ Log[k].value = FirstValue(Log[k].left.pairs, Log[k].index.value)
              /\ Log[k].after = Log[k].before
    /\ \A c \in HashLookupCases :
          (phase = "done" /\ parser.tokens = c.tokens) =>
              /\ result = FirstValue(c.hash.pairs, c.key)
              /\ \E k \in At("index") : Log[k].left = c.hash

\* A hash with the same key twice has been looked up at that key, giving the
\* first pair's value and not the second's, and again later with the same
\* hash and the same value.
C13_FirstOfRepeatedKey ==
    \E k, m \in At("index") :
        /\ k < m
        /\ Log[k].left.kind = "Hash" /\ Log[k].index.kind = "String"
        /\ Len(Log[k].left.pairs) = 2
        /\ KeyedAt(Log[k].left.pairs, Log[k].index.value) = {1, 2}
        /\ Log[k].value = Log[k].left.pairs[1][2]
        /\ Log[k].value # Log[k].left.pairs[2][2]
        /\ Log[m].left = Log[k].left /\ Log[m].index = Log[k].index
        /\ Log[m].value = Log[k].value

\* The "dot" events of an identifier applied to a Hash.
HashDots ==
    {k \in At("dot") : Log[k].left.kind = "Hash" /\ Log[k].right.kind = "Identifier"}

\* The "index" events of the hash h indexed with the String of characters cs.
IndexedWith(h, cs) ==
    {m \in At("index") : Log[m].left = h /\ Log[m].index = String(cs)}

\* C14: `h.k` on a Hash h with an identifier k yields the value of the first
\* pair whose String key is the identifier's name and Null when there is none,
\* which is what every indexing of the same hash with the String "k" yields;
\* nothing is evaluated between the left operand and the lookup, so k is not
\* looked up as a variable.
C14_DotAgreesWithIndex ==
    \A k \in HashDots :
        /\ Log[k].value = FirstValue(Log[k].left.pairs, Log[k].right.value)
        /\ \A m \in IndexedWith(Log[k].left, Log[k].right.value) :
              Log[m].value = Log[k].value
        /\ Log[k].at = k - 1

\* `h.k` and `h["k"]` have been evaluated on a hash with a key "k" while a
\* variable k is bound to another of its keys: both yield the value under "k".
C14_DotWithBoundName ==
    \E k \in HashDots :
        /\ EnvGet(ev.envs, ev.env, Log[k].right.value) \in
              {p[1] : p \in Range(Log[k].left.pairs)} \ {String(Log[k].right.value)}
        /\ KeyedAt(Log[k].left.pairs, Log[k].right.value) # {}
        /\ Log[k].value = FirstValue(Log[k].left.pairs, Log[k].right.value)
        /\ IndexedWith(Log[k].left, Log[k].right.value) # {}

----------------------------------------------------------------------------
(* Conditionals and operators.                                              *)

\* The "block" events of the blocks an if expression entered itself: those
\* one level below the if's own block, in the same call, with an id handed
\* out while its `match` ran.
BranchesOf(e) ==
    {m \in At("block") :
        /\ Log[m].depth = e.depth
        /\ Len(Log[m].blk) = Len(e.blk) + 1
        /\ IsPrefix(e.blk, Log[m].blk)
        /\ Log[m].blk[Len(Log[m].blk)] > e.first
        /\ Log[m].blk[Len(Log[m].blk)] <= e.last}

\* The if expression e evaluated exactly the block stmts, and its value is
\* what that block yielded.
OnlyBranch(e, stmts) ==
    /\ \E m \in BranchesOf(e) : BranchesOf(e) = {m} /\ Log[m].stmts = stmts
    /\ ~e.crashed =>
          \E x \in At("exit") :
              /\ Log[x].depth = e.depth
              /\ \E m \in BranchesOf(e) : Log[x].blk = Log[m].blk
              /\ Log[x].value = e.value

\* The if expression e evaluated no block at all.
NoBranch(e) == BranchesOf(e) = {} /\ e.last = e.first

\* C15: an if whose condition is not a Boolean yields an Error and evaluates
\* neither branch; a true condition evaluates the consequence only and yields
\* its value; a false condition evaluates the alternative only, when there is
\* one, and otherwise yields Null with nothing evaluated; so at most one
\* branch is ever evaluated.
C15_IfEvaluatesOneBranch ==
    \A k \in At("if") :
        /\ Cardinality(BranchesOf(Log[k])) <= 1
        /\ Log[k].condition.kind # "Boolean" =>
              NoBranch(Log[k]) /\ Log[k].value.kind = "Error"
        /\ Log[k].condition = Boolean(TRUE) =>
              OnlyBranch(Log[k], Log[k].consequence)
        /\ (Log[k].condition = Boolean(FALSE) /\ Log[k].alternative # None) =>
              OnlyBranch(Log[k], Log[k].alternative.value)
        /\ (Log[k].condition = Boolean(FALSE) /\ Log[k].alternative = None) =>
              NoBranch(Log[k]) /\ Log[k].value = Null

\* An if with two different branches and an Integer condition has yielded an
\* Error, and the program went on to its next statement.
C15_NonBooleanCondition ==
    \E k \in At("if") :
        /\ Log[k].condition.kind = "Integer"
        /\ Log[k].alternative # None
        /\ Log[k].alternative.value # Log[k].consequence
        /\ Log[k].value.kind = "Error"
        /\ At("set") = {}
        /\ phase = "done" /\ result = Integer(9)

\* The operators as the parser hands them to the evaluator.
EqOp == <<"=", "=">>

NeOp == <<"!", "=">>

\* What `==` and `!=` are to yield on two payloads of one type, and an Error
\* for any other operator.
Compared(e) ==
    /\ e.operator = EqOp => e.value = Boolean(e.left.value = e.right.value)
    /\ e.operator = NeOp => e.value = Boolean(e.left.value # e.right.value)

\* C16: an infix operator on two Booleans yields a Boolean for `==` and `!=`
\* and an Error for every other operator; on two Strings it yields the left
\* operand's characters followed by the right's for `+`, a Boolean for `==`
\* and `!=`, and an Error for every other operator; on any pairing of operand
\* values that is not Integer with Integer, Boolean with Boolean or String
\* with String it yields an Error; and none of these cases crashes.
C16_InfixTypeDispatch ==
    \A k \in At("infix") :
        LET e == Log[k]
            kinds == <<e.left.kind, e.right.kind>>
        IN  /\ kinds = <<"Boolean", "Boolean">> =>
                  /\ ~e.crashed
                  /\ Compared(e)
                  /\ e.operator \notin {EqOp, NeOp} => e.value.kind = "Error"
            /\ kinds = <<"String", "String">> =>
                  /\ ~e.crashed
                  /\ Compared(e)
                  /\ e.operator = <<"+">> =>
                        e.value = String(e.left.value \o e.right.value)
                  /\ e.operator \notin {EqOp, NeOp, <<"+">>} =>
                        e.value.kind = "Error"
            /\ kinds \notin {<<"Integer", "Integer">>, <<"Boolean", "Boolean">>,
                             <<"String", "String">>} =>
                  ~e.crashed /\ e.value.kind = "Error"

\* "a" + "b" has yielded "ab".
C16_ConcatenatedInOrder ==
    \E k \in At("infix") :
        /\ Log[k].left = String(<<"a">>) /\ Log[k].right = String(<<"b">>)
        /\ Log[k].operator = <<"+">>
        /\ Log[k].value = String(<<"a", "b">>)

\* The number an integer literal of the inputs denotes.
Magnitude(w) ==
    CASE w = "0" -> 0 [] w = "1" -> 1 [] w = "2" -> 2 [] w = "3" -> 3
      [] w = "4" -> 4 [] w = "5" -> 5 [] w = "9" -> 9 [] w = "10" -> 10
      [] w = "20" -> 20 [] w = "100" -> 100 [] w = "127" -> 127
      [] w = "999" -> 999

\* `!!b` for both Booleans, as tokens.
DoubleNegations ==
    {[tokens |-> Lex(<<"!", "!", IF b THEN "true" ELSE "false">>), b |-> b] :
        b \in BOOLEAN}

\* `-n` for every integer literal of the inputs that fits an Integer, as
\* tokens.
NegatedLiterals ==
    {[tokens |-> Lex(<<"-", w>>), n |-> Magnitude(w)] :
        w \in {v \in Numbers : Magnitude(v) <= MaxInt}}

\* C17: `!` on a Boolean b yields Boolean(not b) and on any other value an
\* Error; `-` on a non-negative Integer n (so on every integer literal) yields
\* Integer(-n) and on a value that is not an Integer an Error; none of them
\* crashes; and as whole programs `!!b` yields b and `-n` yields Integer(-n)
\* for every literal n.
C17_PrefixRule ==
    /\ \A k \in At("prefix") :
          LET e == Log[k]
          IN  /\ (e.operator = <<"!">> /\ e.right.kind = "Boolean") =>
                    ~e.crashed /\ e.value = Boolean(~e.right.value)
              /\ (e.operator = <<"!">> /\ e.right.kind # "Boolean") =>
                    ~e.crashed /\ e.value.kind = "Error"
              /\ (e.operator = <<"-">> /\ e.right.kind = "Integer"
                    /\ e.right.value >= 0) =>
                    ~e.crashed /\ e.value = Integer(0 - e.right.value)
              /\ (e.operator = <<"-">> /\ e.right.kind # "Integer") =>
                    ~e.crashed /\ e.value.kind = "Error"
    /\ \A c \in DoubleNegations :
          (phase = "done" /\ parser.tokens = c.tokens) => result = Boolean(c.b)
    /\ \A c \in NegatedLiterals :
          parser.tokens = c.tokens =>
              /\ phase \notin {"panic", "failed"}
              /\ phase = "done" => result = Integer(0 - c.n)

\* `!!false` has been evaluated to false through two negations.
C17_DoubleNegation ==
    /\ phase = "done"
    /\ parser.tokens = Lex(<<"!", "!", "false">>)
    /\ Cardinality(At("prefix")) = 2
    /\ result = Boolean(FALSE)

\* The number of elements of an Array, of scalar values of a String.
LengthOf(v) == IF v.kind = "Array" THEN Len(v.elements) ELSE Len(v.value)

\* C19: indexing an Array or a String of length n (n = 0 included) with an
\* Integer i < -n yields Null: it does not crash and it does not yield nothing.
C19_BelowRangeIsNull ==
    \A k \in IndexingsOf("Array") \cup IndexingsOf("String") :
        Log[k].index.value < 0 - LengthOf(Log[k].left) =>
            ~Log[k].crashed /\ Log[k].value = Null

\* C20: indexing a String of n scalar values (multi-byte ones included) with
\* an Integer i yields the one-character String of scalar i when 0 <= i < n,
\* of scalar n + i when -n <= i <= -1, and Null when i >= n.
C20_StringIndexingByScalars ==
    \A k \in IndexingsOf("String") :
        LET str == Log[k].left.value
            n == Len(str)
            i == Log[k].index.value
        IN  /\ (0 <= i /\ i < n) =>
                    (~Log[k].crashed /\ Log[k].value = String(<<str[i + 1]>>))
            /\ (-n <= i /\ i <= -1) =>
                    (~Log[k].crashed /\ Log[k].value = String(<<str[n + i + 1]>>))
            /\ i >= n => (~Log[k].crashed /\ Log[k].value = Null)

----------------------------------------------------------------------------
(* The statement terminator.                                                *)

\* parse_program on a whole token sequence: its loop run to the end.
RECURSIVE ParseAll(_, _)
ParseAll(p, prog) ==
    IF p.panicked THEN [panicked |-> TRUE, program |-> prog]
    ELSE IF p.current_token.ttype = "Eof"
    THEN [panicked |-> FALSE, program |-> prog]
    ELSE ParseAll(parse_program_turn(p, prog).parser,
                  parse_program_turn(p, prog).program)

ProgramOf(toks) == ParseAll(ParserNew(toks), <<>>)

\* The token sequence toks with every `;` removed.
Unterminated(toks) == SelectSeq(toks, LAMBDA tok : tok.ttype # "Semicolon")

\* No token behind a `;` binds as an infix operator: the token that starts a
\* following statement cannot extend the expression before it.
LowestStarters(toks) ==
    \A i \in 1..(Len(toks) - 1) :
        toks[i].ttype = "Semicolon" =>
            token_precedence(toks[i + 1].ttype) = Lowest

\* The token sequences of the generated statement sequences.
Terminators == {Lex(ws) : ws \in Sequences}

\* C18: for a sequence of statements with a `;` after each (also inside the
\* blocks) in which no token behind a `;` binds as an infix operator, the
\* program parsed is the program parsed from the same tokens with every `;`
\* removed: as many statements, of the same kinds, names and expressions, in
\* the same order, and neither parse fails.
C18_TerminatorOptional ==
    (parser.tokens \in Terminators /\ LowestStarters(parser.tokens)) =>
        /\ ~parser.panicked
        /\ ~ProgramOf(Unterminated(parser.tokens)).panicked
        /\ phase # "parse" =>
              program = ProgramOf(Unterminated(parser.tokens)).program

\* `let a = 1; 1 + 2 * 3;` has been parsed into the two statements that
\* `let a = 1 1 + 2 * 3` parses into.
C18_TwoStatementsEitherWay ==
    /\ phase # "parse"
    /\ parser.tokens = Lex(<<"let", "a", "=", "1", ";", "1", "+", "2", "*", "3", ";">>)
    /\ Len(program) = 2
    /\ program[1].kind = "Let" /\ program[2].kind = "Expression"
    /\ program = ProgramOf(Lex(<<"let", "a", "=", "1", "1", "+", "2", "*", "3">>)).program

----------------------------------------------------------------------------
(* Statements without a value, and the totality of if and call.             *)

\* The "done" events of the statements whose evaluation produced no value.
Valueless == {k \in At("done") : Log[k].value = None}

\* C21: a statement whose evaluation produces no value, at top level or
\* inside an if-block or a function body, ends the run: no statement begins
\* after it, and eval has returned an Error.
C21_ValuelessStatementAbortsRun ==
    \A k \in Valueless :
        /\ \A m \in At("begin") : m < k
        /\ phase = "failed"
        /\ result.kind = "Error"

\* C22: an if expression whose condition is a Boolean and a call of a
\* Function with as many arguments as parameters produce a value whenever
\* they finish without a crash, also when the block they run is empty or all
\* its statements are Errors.
C22_IfAndCallYieldAValue ==
    /\ \A k \in At("if") :
          (Log[k].condition.kind = "Boolean" /\ ~Log[k].crashed) =>
              Log[k].value # None
    /\ \A k \in At("applied") : Log[k].entered => Log[k].value # None

----------------------------------------------------------------------------
(* Integer arithmetic.                                                      *)

\* The "infix" events of two Integer operands.
IntegerInfixes ==
    {k \in At("infix") : Log[k].left.kind = "Integer" /\ Log[k].right.kind = "Integer"}

InRange(n) == MinInt <= n /\ n <= MaxInt

\* The quotient truncated toward zero.
Quotient(a, b) ==
    IF (a < 0) = (b < 0) THEN (IF a < 0 THEN 0 - a ELSE a) \div (IF b < 0 THEN 0 - b ELSE b)
    ELSE 0 - ((IF a < 0 THEN 0 - a ELSE a) \div (IF b < 0 THEN 0 - b ELSE b))

\* The exact result of an arithmetic operator, where it has one.
Exact(op, a, b) ==
    CASE op = <<"+">> -> a + b
      [] op = <<"-">> -> a - b
      [] op = <<"*">> -> a * b
      [] op = <<"/">> -> IF b = 0 THEN 0 ELSE Quotient(a, b)

\* What a comparison operator is to yield.
Holds(op, a, b) ==
    CASE op = <<"<">> -> a < b
      [] op = <<">">> -> a > b
      [] op = EqOp -> a = b
      [] op = NeOp -> a # b

ArithmeticOps == {<<"+">>, <<"-">>, <<"*">>, <<"/">>}

ComparisonOps == {<<"<">>, <<">">>, EqOp, NeOp}

\* C23: an infix operator of `+ - * / < > == !=` on two Integers never ends
\* the evaluation: the arithmetic ones yield an Integer (the exact result when
\* it is in range, `/` truncated toward zero), the comparisons the Boolean of
\* the comparison, also for a divisor 0 and for results out of range; and
\* negating an Integer never ends the evaluation either.
C23_IntegerArithmeticIsTotal ==
    /\ \A k \in IntegerInfixes :
          LET op == Log[k].operator
              a == Log[k].left.value
              b == Log[k].right.value
          IN  /\ ~Log[k].crashed
              /\ op \in ArithmeticOps =>
                    /\ Log[k].value.kind = "Integer"
                    /\ (InRange(Exact(op, a, b)) /\ ~(op = <<"/">> /\ b = 0)) =>
                          Log[k].value = Integer(Exact(op, a, b))
              /\ op \in ComparisonOps => Log[k].value = Boolean(Holds(op, a, b))
    /\ \A k \in At("prefix") :
          (Log[k].operator = <<"-">> /\ Log[k].right.kind = "Integer") =>
              ~Log[k].crashed /\ Log[k].value.kind = "Integer"

----------------------------------------------------------------------------
(* Blocks.                                                                  *)

RECURSIVE MatchFrom(_, _, _)
\* The position in toks of the `}` that closes the brace opened before
\* position i with `depth` braces open, 0 when there is none.
MatchFrom(toks, i, depth) ==
    IF i > Len(toks) THEN 0
    ELSE IF toks[i].ttype = "LBrace" THEN MatchFrom(toks, i + 1, depth + 1)
    ELSE IF toks[i].ttype = "RBrace"
    THEN (IF depth = 1 THEN i ELSE MatchFrom(toks, i + 1, depth - 1))
    ELSE MatchFrom(toks, i + 1, depth)

\* The position of the `}` matching the `{` at cursor index open.
MatchOf(toks, open) == MatchFrom(toks, open + 2, 1)

\* The tokens strictly between the `{` at cursor index open and its `}`,
\* closed by an Eof.
Inside(toks, open) ==
    Append(SubSeq(toks, open + 2, MatchOf(toks, open) - 1), EofToken)

\* The statements that parse from the tokens between the two braces.
Between(toks, open) ==
    IF MatchOf(toks, open) = open + 2 THEN <<>>
    ELSE ProgramOf(Inside(toks, open)).program

\* C24: parse_block_statement entered on a `{` that has a matching `}` returns
\* with the cursor on that `}`, having collected, in source order, the
\* statements that parse between the two braces; a statement between them
\* that fails to parse is left out and no token behind the `}` enters the
\* block.
C24_BlockEndsAtItsBrace ==
    \A k \in 1..Len(parser.blocks) :
        LET b == parser.blocks[k]
        IN  MatchOf(parser.tokens, b.open) # 0 =>
                /\ b.close + 1 = MatchOf(parser.tokens, b.open)
                /\ b.stmts = Between(parser.tokens, b.open)

----------------------------------------------------------------------------
(* Reassignment.                                                            *)

\* The bindings of a heap of frames: frame, name, value.
Bindings(heap) ==
    UNION {{<<a, n, heap[a].store[n]>> : n \in DOMAIN heap[a].store} :
              a \in DOMAIN heap}

RECURSIVE BoundOnChain(_, _, _)
\* Some frame of the chain that starts at frame a binds name.
BoundOnChain(heap, a, name) ==
    \/ name \in DOMAIN heap[a].store
    \/ heap[a].outer # 0 /\ BoundOnChain(heap, heap[a].outer, name)

\* C25: a reassignment `x = e` whose name no frame of the chain binds yields
\* the Error "Identifier not found" and leaves every binding of every frame as
\* it was; one whose name some frame of the chain binds yields Empty and
\* writes exactly one binding, x in the active frame.
C25_ReassignNeedsABinding ==
    \A k \in At("reassign") :
        LET e == Log[k]
        IN  IF BoundOnChain(e.before, e.env, e.name)
            THEN /\ e.result = Empty
                 /\ <<e.env, e.name, e.value>> \in Bindings(e.after)
                 /\ \A b \in Bindings(e.after) \ {<<e.env, e.name, e.value>>} :
                       b \in Bindings(e.before)
                 /\ \A b \in Bindings(e.before) :
                       (b[1] # e.env \/ b[2] # e.name) => b \in Bindings(e.after)
                 /\ DOMAIN e.after = DOMAIN e.before
            ELSE /\ e.result = new_error("Identifier not found")
                 /\ e.after = e.before

\* A reassignment of an unbound name has been refused, and one of a name bound
\* only in an outer frame has created the binding in the active frame.
C25_RefusedAndShadowed ==
    /\ \E k \in At("reassign") :
          /\ ~BoundOnChain(Log[k].before, Log[k].env, Log[k].name)
          /\ Log[k].result.kind = "Error"
    /\ \E k \in At("reassign") :
          /\ Log[k].name \notin DOMAIN Log[k].before[Log[k].env].store
          /\ Log[k].name \in DOMAIN Log[k].after[Log[k].env].store
          /\ Log[k].result = Empty

----------------------------------------------------------------------------
(* Dot notation on a Hash with a right side that is no identifier.          *)

\* The "dot" events of a Hash whose right side is not a bare identifier.
HashDotsOther ==
    {k \in At("dot") : Log[k].left.kind = "Hash" /\ Log[k].right.kind # "Identifier"}

\* C26: dot notation on a Hash whose right side is not a bare identifier (a
\* string literal, an integer literal, an infix expression) yields an Error
\* value, not the outcome of a key lookup.
C26_HashDotWantsAnIdentifier ==
    \A k \in HashDotsOther : Log[k].value.kind = "Error"

----------------------------------------------------------------------------
(* List constructs without their closing delimiter.                         *)

\* The token sequences of the statements whose list lacks its closer.
UnclosedTokens == {Lex(ws) : ws \in Unclosed}

\* C27: a statement whose call arguments, array elements or function
\* parameters lack the closing delimiter is dropped from the Program: the
\* parse of the list construct is absent, and no FunctionCall, Array or
\* FunctionLiteral node with an emptied list takes its place.
C27_UnclosedListIsDropped ==
    parser.tokens \in UnclosedTokens => program = <<>>

----------------------------------------------------------------------------
(* Hash literals.                                                           *)

\* The key and value expressions of pair j of a generated hash literal.
LiteralPairNodes(j) ==
    <<[kind |-> "Identifier", value |-> Word(<<"a", "b">>[j]).literal],
      [kind |-> "IntegerLit", value |-> j]>>

\* What parse_hash_expr is to return for the shape s: nothing for a pair
\* without `:` or two pairs without `,`, else the pairs in source order.
LiteralNode(s) ==
    IF s.c # 0 \/ (s.n = 2 /\ ~s.comma) THEN None
    ELSE [kind |-> "HashLit", pairs |-> [j \in 1..s.n |-> LiteralPairNodes(j)]]

LiteralCases ==
    {[tokens |-> Lex(LiteralWords(s.n, s.c, s.comma, s.trailing)),
      node |-> LiteralNode(s)] : s \in LiteralShapes}

\* C28: parse_hash_expr returns the `key: value` pairs between `{` and `}` in
\* source order, the empty literal for `{}` and the same literal with a single
\* trailing comma before `}`; it returns nothing when a pair lacks its `:` or
\* two pairs are not separated by `,`.
C28_HashLiteralParsing ==
    \A c \in LiteralCases :
        parser.tokens = c.tokens =>
            \A k \in 1..Len(parser.hashes) :
                parser.hashes[k].at = 0 => parser.hashes[k].result = c.node

\* A literal of two pairs with a trailing comma has been parsed.
C28_TrailingCommaParsed ==
    /\ parser.tokens = Lex(LiteralWords(2, 0, TRUE, TRUE))
    /\ Len(parser.hashes) = 1
    /\ parser.hashes[1].result # None
    /\ Len(parser.hashes[1].result.pairs) = 2

----------------------------------------------------------------------------
(* The token cursor.                                                        *)

\* C29: while parsing, 0 <= index <= len(tokens) - 1, current_token is
\* tokens[index] and peek_token is tokens[min(index + 1, len(tokens) - 1)],
\* now and after every next_token so far; and next_token has never been
\* invoked with current_token being Eof.
C29_TokenCursorInvariant ==
    /\ CursorOk(parser)
    /\ parser.cursor_ok
    /\ ~parser.eof_advance

----------------------------------------------------------------------------
(* Progress and termination of parsing.                                     *)

\* parse_program is in its loop with a statement to parse.
ParseTurn == phase = "parse" /\ parser.current_token.ttype # "Eof"

\* parse_program has returned its Program.
ParseReturned == phase # "parse" /\ ~parser.panicked

\* C30: in every step the cursor index does not decrease and there have been
\* no more than len(tokens) cursor advances; every turn of parse_program's
\* statement loop moves the cursor forward by one token at least and only
\* appends to the Program; and after every step parse_program is either still
\* in its loop or has returned its Program, so that it returns after a
\* bounded number of turns.
C30_ParsingTerminates ==
    [][/\ parser'.index >= parser.index
       /\ parser'.advances <= Len(parser'.tokens)
       /\ ParseTurn => (parser'.index > parser.index /\ IsPrefix(program, program'))
       /\ phase' = "parse" \/ ParseReturned']_vars

====
